---- MODULE Spec2Model ----
(***************************************************************************)
(* Model of the V-language binding generators of v_vulkan_bindings:        *)
(* VOutputGenerator (src/src/vgenerator.py, the primary generator) and     *)
(* VOutputGeneratorBK (src/src/vgenerator_bk.py, the backup generator).    *)
(*                                                                         *)
(* Text is modelled as a sequence of one-character strings, so that the    *)
(* string rewriting of the generators (prefix stripping, case folding) is  *)
(* computed character by character as the Python code computes it.         *)
(***************************************************************************)
EXTENDS Integers, Sequences, FiniteSets, TLC

VARIABLES
    fnGen,      \* which generator class the function under test belongs to
    fnArg,      \* the argument string handed to the function under test
    fnRes,      \* the result of applying the function once
    fnRes2,     \* the result of applying the function to fnRes
    fnStage     \* "arg", "once" or "twice"

fnVars == <<fnGen, fnArg, fnRes, fnRes2, fnStage>>

(***************************************************************************)
(* Characters and strings                                                  *)
(***************************************************************************)
UpperChars == <<"A", "B", "C", "D", "E", "F", "G", "H", "I", "J", "K", "L", "M",
                "N", "O", "P", "Q", "R", "S", "T", "U", "V", "W", "X", "Y", "Z">>

LowerChars == <<"a", "b", "c", "d", "e", "f", "g", "h", "i", "j", "k", "l", "m",
                "n", "o", "p", "q", "r", "s", "t", "u", "v", "w", "x", "y", "z">>

DigitChars == <<"0", "1", "2", "3", "4", "5", "6", "7", "8", "9">>

Range(f) == {f[i] : i \in DOMAIN f}

IsUpper(c) == c \in Range(UpperChars)

IsLower(c) == c \in Range(LowerChars)

IsDigit(c) == c \in Range(DigitChars)

\* str.lower() on one character
LowerChar(c) ==
    IF IsUpper(c) THEN LowerChars[CHOOSE i \in DOMAIN UpperChars : UpperChars[i] = c]
    ELSE c

\* str.lower()
Lower(s) == [i \in 1..Len(s) |-> LowerChar(s[i])]

\* s[n:]
Drop(s, n) == IF n >= Len(s) THEN <<>> ELSE SubSeq(s, n + 1, Len(s))

\* F of the value of v: v is bound by a quantifier, which evaluates it once
With(v, F(_)) == CHOOSE R \in { F(x) : x \in {v} } : TRUE

\* s[:n]
Take(s, n) == IF n >= Len(s) THEN s ELSE SubSeq(s, 1, n)

\* s.startswith(p)
StartsWith(s, p) == Len(s) >= Len(p) /\ SubSeq(s, 1, Len(p)) = p

\* s.endswith(p)
EndsWith(s, p) == Len(s) >= Len(p) /\ SubSeq(s, Len(s) - Len(p) + 1, Len(s)) = p

RECURSIVE Concat(_)
\* ''.join(parts)
Concat(parts) == IF parts = <<>> THEN <<>> ELSE Head(parts) \o Concat(Tail(parts))

\* the sequences over S of length 1..n
SeqsUpTo(S, n) == UNION {[1..k -> S] : k \in 1..n}

(***************************************************************************)
(* Namespace demangling                                                    *)
(***************************************************************************)
s_vk_true == <<"v", "k", "_", "t", "r", "u", "e">>

s_vk_false == <<"v", "k", "_", "f", "a", "l", "s", "e">>

s_true == <<"t", "r", "u", "e">>

s_false == <<"f", "a", "l", "s", "e">>

s_vk_ == <<"v", "k", "_">>

s_vk == <<"v", "k">>

s_c_vk == <<"c", ".", "v", "k">>

\* VOutputGenerator.removeVk
removeVk(s) ==
    IF Lower(s) \in {s_vk_true, s_vk_false} THEN Drop(s, 2)
    ELSE LET s1 == IF StartsWith(Lower(s), s_vk_) THEN Drop(s, 3) ELSE s
             s2 == IF StartsWith(Lower(s1), s_vk) THEN Drop(s1, 2) ELSE s1
         IN  s2

\* VOutputGeneratorBK.removeVk
removeVkBK(s) ==
    IF Lower(s) \in {s_vk_true, s_vk_false} THEN s
    ELSE LET s1 == IF StartsWith(Lower(s), s_vk_) /\ Lower(Drop(s, 3)) \notin {s_true, s_false}
                   THEN Drop(s, 3) ELSE s
             s2 == IF StartsWith(Lower(s1), s_vk) /\ Lower(Drop(s1, 2)) \notin {s_true, s_false}
                   THEN Drop(s1, 2) ELSE s1
             s3 == IF StartsWith(Lower(s2), s_c_vk) /\ Lower(Drop(s2, 4)) \notin {s_true, s_false}
                   THEN <<"C", ".">> \o Drop(s2, 4) ELSE s2
         IN  s3

\* removeVk of the generator class g
removeVkOf(g, s) == IF g = "V" THEN removeVk(s) ELSE removeVkBK(s)

(***************************************************************************)
(* Camel case to snake case                                                *)
(***************************************************************************)
\* CAMEL_TO_SNAKE_CASE_REGEX matches the single character at position i:
\* ((?<=[a-z0-9])[A-Z]|(?!^)[A-Z](?=[a-z]))
CAMEL_TO_SNAKE_CASE_REGEX(s, i) ==
    /\ IsUpper(s[i])
    /\ \/ i > 1 /\ (IsLower(s[i - 1]) \/ IsDigit(s[i - 1]))
       \/ i > 1 /\ i < Len(s) /\ IsLower(s[i + 1])

\* VOutputGenerator.v_camel_to_snake_case: sub(r'_\1', v_name).lower()
v_camel_to_snake_case(s) ==
    Lower(Concat([i \in 1..Len(s) |->
        IF CAMEL_TO_SNAKE_CASE_REGEX(s, i) THEN <<"_", s[i]>> ELSE <<s[i]>>]))

(***************************************************************************)
(* Literal tables of the primary generator                                 *)
(***************************************************************************)
\* a faulty order of the type sections: the structs ahead of the base types
TYPE_SECTIONS_StructFirst ==
    <<"include", "define", "struct", "handle", "enum",
      "group", "bitmask", "funcpointer", "basetype">>

\* VOutputGenerator.TYPE_SECTIONS
TYPE_SECTIONS == <<"include", "define", "basetype", "handle", "enum",
                   "group", "bitmask", "funcpointer", "struct">>

\* VOutputGenerator.ALL_SECTIONS
ALL_SECTIONS == TYPE_SECTIONS \o <<"commandPointer", "command">>

\* VOutputGenerator.BASE_TYPES_ARR
BASE_TYPES_ARR ==
    << <<"u", "3", "2">>,
       <<"u", "6", "4">>,
       <<"u", "s", "i", "z", "e">>,
       <<"f", "3", "2">>,
       <<"i", "3", "2">>,
       <<"i", "n", "t">>,
       <<"u", "1", "6">>,
       <<"c", "h", "a", "r">>,
       <<"v", "o", "i", "d", "p", "t", "r">> >>

\* VOutputGenerator.TYPE_MAP as its set of (key, value) items
TYPE_MAP_ITEMS ==
    { <<<<"s", "i", "z", "e", "_", "t">>, <<"u", "s", "i", "z", "e">>>>,
      <<<<"v", "o", "i", "d", "*">>, <<"v", "o", "i", "d", "p", "t", "r">>>>,
      <<<<"&", "v", "o", "i", "d">>, <<"v", "o", "i", "d", "p", "t", "r">>>>,
      <<<<"v", "o", "i", "d", "*", "*">>, <<"&", "v", "o", "i", "d", "p", "t", "r">>>>,
      <<<<"v", "o", "i", "d">>, <<>>>>,
      <<<<"u", "i", "n", "t", "8", "_", "t">>, <<"u", "8">>>>,
      <<<<"u", "i", "n", "t", "1", "6", "_", "t">>, <<"u", "1", "6">>>>,
      <<<<"u", "i", "n", "t", "3", "2", "_", "t">>, <<"u", "3", "2">>>>,
      <<<<"u", "i", "n", "t", "6", "4", "_", "t">>, <<"u", "6", "4">>>>,
      <<<<"i", "n", "t", "8", "_", "t">>, <<"i", "8">>>>,
      <<<<"i", "n", "t", "1", "6", "_", "t">>, <<"i", "1", "6">>>>,
      <<<<"i", "n", "t", "3", "2", "_", "t">>, <<"i", "3", "2">>>>,
      <<<<"i", "n", "t", "6", "4", "_", "t">>, <<"i", "6", "4">>>>,
      <<<<"d", "o", "u", "b", "l", "e">>, <<"f", "6", "4">>>>,
      <<<<"b", "y", "t", "e", "*">>, <<"&", "u", "8">>>>,
      <<<<"c", "h", "a", "r", "*">>, <<"&", "c", "h", "a", "r">>>>,
      <<<<"c", "h", "a", "r", "*", "*">>, <<"&", "&", "c", "h", "a", "r">>>>,
      <<<<"f", "l", "o", "a", "t">>, <<"f", "3", "2">>>>,
      <<<<"f", "l", "o", "a", "t", "*">>, <<"&", "f", "3", "2">>>>,
      <<<<"c", "h", "a", "r", "*", " ", "c", "o", "n", "s", "t", "*">>, <<"&", "&", "c", "h", "a", "r">>>>,
      <<<<"f", "l", "o", "a", "t", "6", "4">>, <<"f", "6", "4">>>>,
      <<<<"f", "l", "o", "a", "t", "6", "4", "*">>, <<"&", "f", "6", "4">>>> }

\* `k in self.TYPE_MAP`
InTypeMap(k) == \E it \in TYPE_MAP_ITEMS : it[1] = k

\* self.TYPE_MAP[k]
TYPE_MAP(k) == (CHOOSE it \in TYPE_MAP_ITEMS : it[1] = k)[2]

s_voidptr == <<"v", "o", "i", "d", "p", "t", "r">>

s_u32 == <<"u", "3", "2">>

s_u64 == <<"u", "6", "4">>

s_C_Vk == <<"C", ".", "V", "k">>

s_C_ == <<"C", ".">>

s_PFN_ == <<"P", "F", "N", "_">>

s_PFN_vkVoidFunction == <<"P", "F", "N", "_", "v", "k", "V", "o", "i", "d", "F", "u", "n", "c", "t", "i", "o", "n">>

s_VK_DEFINE_HANDLE == <<"V", "K", "_", "D", "E", "F", "I", "N", "E", "_", "H", "A", "N", "D", "L", "E">>

s_VK_DEFINE_NON_DISPATCHABLE_HANDLE ==
    <<"V", "K", "_", "D", "E", "F", "I", "N", "E", "_", "N", "O", "N", "_", "D", "I", "S", "P",
      "A", "T", "C", "H", "A", "B", "L", "E", "_", "H", "A", "N", "D", "L", "E">>

s_MAKE_API_VERSION == <<"M", "A", "K", "E", "_", "A", "P", "I", "_", "V", "E", "R", "S", "I", "O", "N">>

s_StructureType == <<"S", "t", "r", "u", "c", "t", "u", "r", "e", "T", "y", "p", "e">>

\* x in list
InList(x, list) == \E i \in DOMAIN list : list[i] = x

\* s.count(c)
Count(s, c) == Cardinality({i \in DOMAIN s : s[i] = c})

RECURSIVE LStrip(_, _)
\* s.lstrip(c)
LStrip(s, c) == IF s # <<>> /\ Head(s) = c THEN LStrip(Tail(s), c) ELSE s

\* n copies of the character c
Repeat(c, n) == [i \in 1..n |-> c]

(***************************************************************************)
(* Dictionaries: a Python dict is a function whose domain is its key set    *)
(***************************************************************************)
EmptyDict == [k \in {} |-> <<>>]

\* d[k] = v
DictSet(d, k, v) == [x \in (DOMAIN d) \cup {k} |-> IF x = k THEN v ELSE d[x]]

\* k in d
InDict(k, d) == k \in DOMAIN d

(***************************************************************************)
(* The class-level tables.  They are class attributes of VOutputGenerator  *)
(* that the methods only ever mutate in place through self, so one value   *)
(* is shared by every instance of the class.                               *)
(***************************************************************************)
\* the tables as the class statement leaves them
SeedTables ==
    [ ALIAS_TO_BASE_TYPE_MAP       |-> EmptyDict,
      C_STRUCT_ARR                 |-> <<>>,
      C_STRUCT_ARR_WITH_VK_PREFIX  |-> <<>>,
      ENUM_TYPES                   |-> <<>>,
      STRUCTURE_TYPES              |-> <<>>,
      REPLACEMENT_EXACT_TEXT_ARR   |-> <<>> ]

\* a faulty assignment: the map is bound anew and holds the one entry
SetAliasAnew(T, k, v) ==
    [T EXCEPT !.ALIAS_TO_BASE_TYPE_MAP = DictSet(EmptyDict, k, v)]

\* self.ALIAS_TO_BASE_TYPE_MAP[k] = v
SetAlias(T, k, v) ==
    [T EXCEPT !.ALIAS_TO_BASE_TYPE_MAP = DictSet(T.ALIAS_TO_BASE_TYPE_MAP, k, v)]

\* VOutputGenerator.v_translate_c_name_to_basetype: the returned (name, alias)
\* and the tables after the call
v_translate_c_name_to_basetype(T, name0, alias0) ==
    LET alias == removeVk(alias0)
        name == removeVk(name0)
        ptr_count == Count(alias, "&")
    IN  IF InList(alias, BASE_TYPES_ARR)
        THEN [name |-> name, alias |-> alias, T |-> SetAlias(T, name, alias)]
        ELSE IF InList(alias, T.C_STRUCT_ARR)
        THEN [name |-> name, alias |-> s_voidptr, T |-> T]
        ELSE IF InList(removeVk(LStrip(alias, "&")), T.C_STRUCT_ARR)
        THEN LET a == s_C_Vk \o Repeat("&", ptr_count) \o alias
             IN  [name |-> name, alias |-> a, T |-> SetAlias(T, name, a)]
        ELSE IF InDict(alias, T.ALIAS_TO_BASE_TYPE_MAP)
        THEN LET a == T.ALIAS_TO_BASE_TYPE_MAP[alias]
             IN  [name |-> name, alias |-> a, T |-> SetAlias(T, name, a)]
        ELSE [name |-> name, alias |-> alias, T |-> T]

(***************************************************************************)
(* Type translation.  A registry <type> that is no struct, union or        *)
(* function pointer is the record                                          *)
(*   [id, name, category, alias, elems, ctype, tail,                       *)
(*    cTriggers, cReplaced, cDeprecated]                                   *)
(* alias is <<>> when the type is no alias.  elems tells the children of   *)
(* the element: "type_name" for `typedef <type>T</type> <name>N</name>;`   *)
(* and `<type>VK_DEFINE_HANDLE</type>(<name>N</name>)`, "name" for         *)
(* `#define <name>N</name> ...` and `struct <name>N</name>;`, "none" for   *)
(* an element with text only.  ctype is the text of the <type> child and   *)
(* tail the text that follows the <name> child.  cTriggers counts the      *)
(* entries of REPLACEMENT_CONTAINS_ARR the C rendering contains, cReplaced *)
(* tells whether the C rendering is a key of REPLACEMENT_MAP, cDeprecated  *)
(* whether it starts with '// DEPRECATED:', cHelper the version macro of   *)
(* the C rendering that genType answers with a hand-written helper.  The   *)
(* C rendering of a declared type is never empty.                          *)
(* Emitted text is the record [k, n, t]: the kind of declaration, the      *)
(* declared name and the text it is declared as.                           *)
(***************************************************************************)
Text(k, n, t) == [k |-> k, n |-> n, t |-> t, trig |-> 0, repl |-> FALSE]

NoText == Text("none", <<>>, <<>>)

\* the empty string a REPLACEMENT_MAP value puts in the place of a fragment
EmptyText == Text("empty", <<>>, <<>>)

\* s.replace(c, '') for a single character c
RemoveChar(s, c) == SelectSeq(s, LAMBDA x : x # c)

s_vk_header_version == <<"v", "k", "_", "h", "e", "a", "d", "e", "r", "_", "v", "e", "r", "s", "i", "o", "n">>

s_header_version == <<"h", "e", "a", "d", "e", "r", "_", "v", "e", "r", "s", "i", "o", "n">>

\* old occurs in s at the position i
OccursAt(s, old, i) == i + Len(old) - 1 <= Len(s) /\ SubSeq(s, i, i + Len(old) - 1) = old

RECURSIVE Replace(_, _, _)
\* s.replace(old, new) for a non-empty old: the occurrences are taken from
\* the left.  (The string and the first occurrence are bound by quantifiers,
\* which evaluate each of them once.)
Replace(s0, old, new) ==
    CHOOSE R \in
        { CHOOSE Q \in
              { IF first > Len(s) THEN s
                ELSE SubSeq(s, 1, first - 1) \o new \o Replace(Drop(s, first + Len(old) - 1), old, new)
                : first \in { CHOOSE i \in 1..(Len(s) + 1) :
                                  /\ i <= Len(s) => OccursAt(s, old, i)
                                  /\ \A j \in 1..(i - 1) : ~OccursAt(s, old, j) } } : TRUE
          : s \in {s0} } : TRUE

\* the section genCType and genVType file a type under
SectionOfType(d) == IF d.category = "funcpointer" THEN "struct" ELSE d.category

\* the value of v_type after the <type> child has been visited
\* (the elem.tag == 'type' branch, for a tail without '*')
VTypeOfElem(d) ==
    IF d.ctype = s_VK_DEFINE_HANDLE THEN <<"&">> \o s_C_Vk \o d.name
    ELSE IF d.ctype = s_VK_DEFINE_NON_DISPATCHABLE_HANDLE THEN <<"&">> \o s_C_ \o d.name
    ELSE removeVk(removeVk(IF InTypeMap(d.ctype) THEN TYPE_MAP(d.ctype) ELSE d.ctype))

\* whether the <type> child declares a handle
IsHandleElem(d) ==
    /\ d.elems = "type_name"
    /\ d.ctype \in {s_VK_DEFINE_HANDLE, s_VK_DEFINE_NON_DISPATCHABLE_HANDLE}

\* what genVType returns: an exception, nothing, or (section, body); and the
\* tables it leaves
VRet(err, some, section, body, T) ==
    [err |-> err, some |-> some, section |-> section, body |-> body, T |-> T]

\* genVType for a type that is an alias
genVTypeAlias(T, d) ==
    With(v_translate_c_name_to_basetype(T, d.name, d.alias), LAMBDA r1 :
        IF StartsWith(d.name, s_PFN_)
        THEN VRet("IndexError", FALSE, SectionOfType(d), NoText, r1.T)
        ELSE IF d.category \in {"bitmask", "handle"}
        THEN With(v_translate_c_name_to_basetype(r1.T, r1.name, r1.alias), LAMBDA r2 :
                  VRet("none", TRUE, SectionOfType(d), Text("type", r2.name, r2.alias), r2.T))
        ELSE VRet("none", FALSE, SectionOfType(d), NoText, r1.T))

\* genVType for a type that is neither translated as an alias nor from its
\* children: only the deprecation comment of a bitmask or handle is returned
genVTypeBare(T, d) ==
    IF d.category \in {"bitmask", "handle"} /\ d.cDeprecated
    THEN VRet("none", TRUE, SectionOfType(d), Text("comment", d.name, <<>>), T)
    ELSE VRet("none", FALSE, SectionOfType(d), NoText, T)

\* genVType for a type that is no alias and has children
genVTypeElems(T, misracppstyle, d) ==
    With(removeVk(d.name), LAMBDA v_name1 :
    With(IF d.elems = "type_name" THEN removeVk(VTypeOfElem(d)) ELSE <<>>, LAMBDA v_type :
    With(removeVk(v_name1), LAMBDA v_name :
    With(IF d.category = "define" /\ misracppstyle THEN <<>>
         ELSE removeVk(d.name \o RemoveChar(d.tail, ";")), LAMBDA v_value :
    \* the <name> child records a handle as an opaque type
    With(IF IsHandleElem(d)
         THEN [T EXCEPT !.C_STRUCT_ARR = Append(@, v_name1),
                        !.C_STRUCT_ARR_WITH_VK_PREFIX = Append(@, v_name1)]
         ELSE T, LAMBDA T1 :
    \* if v_text == 'type' and v_type in self.BASE_TYPES_ARR
    With(IF InList(v_type, BASE_TYPES_ARR) THEN SetAlias(T1, v_name, v_type) ELSE T1, LAMBDA T2 :
        IF IsHandleElem(d)
        THEN VRet("none", TRUE, SectionOfType(d), Text("handle", v_name, s_voidptr),
                  SetAlias(T2, v_name, s_voidptr))
        ELSE IF v_name # <<>> /\ v_type # <<>>
        \* elif v_text and v_name and v_type
        THEN With(~InList(v_type, BASE_TYPES_ARR) /\ InDict(v_type, T2.ALIAS_TO_BASE_TYPE_MAP), LAMBDA inMap :
             With(IF inMap THEN T2.ALIAS_TO_BASE_TYPE_MAP[v_type] ELSE v_type, LAMBDA v_type3 :
             With(v_translate_c_name_to_basetype(
                      IF InList(v_type, BASE_TYPES_ARR) \/ inMap THEN SetAlias(T2, v_name, v_type3) ELSE T2,
                      v_name, v_type3), LAMBDA r :
                 VRet("none", TRUE, SectionOfType(d),
                      IF r.alias = s_MAKE_API_VERSION
                      THEN Text("const", Lower(r.name),
                                Replace(Lower(v_value), s_vk_header_version, s_header_version))
                      ELSE Text("type", r.name, r.alias),
                      r.T))))
        ELSE IF v_value # <<>> /\ d.category # "basetype"
        THEN VRet("none", TRUE, SectionOfType(d), Text("type", v_value, v_name), T2)
        ELSE IF v_value # <<>>
        THEN VRet("none", TRUE, SectionOfType(d), Text("cstruct", v_value, s_C_ \o v_value), T2)
        ELSE genVTypeBare(T2, d)))))))

\* VOutputGenerator.genVType for a type that is no struct or union
genVType(T, opts, d) ==
    IF opts = <<>> THEN VRet("MissingGeneratorOptionsError", FALSE, SectionOfType(d), NoText, T)
    ELSE IF d.alias # <<>> THEN genVTypeAlias(T, d)
    ELSE IF d.elems # "none" THEN genVTypeElems(T, opts[1].misracppstyle, d)
    ELSE genVTypeBare(T, d)

\* sub in s
Contains(s, sub) == \E i \in 0..(Len(s) - Len(sub)) : SubSeq(s, i + 1, i + Len(sub)) = sub

(***************************************************************************)
(* Parameters and members.  A <param> or <member> element is the record    *)
(*   [text, elems]                                                         *)
(* text is the text ahead of the first child ('const ' or nothing) and      *)
(* elems the children in document order, each [tag, text, tail].            *)
(***************************************************************************)
Elem(tag, text, tail) == [tag |-> tag, text |-> text, tail |-> tail]

Param(text, elems) == [text |-> text, elems |-> elems]

\* \w of a regular expression
IsWord(c) == IsUpper(c) \/ IsLower(c) \/ IsDigit(c) \/ c = "_"

\* a character str.strip() and str.split() take for white space
IsSpace(c) == c \in {" ", "\n", "\t"}

RECURSIVE LStripSpace(_)
\* s.lstrip()
LStripSpace(s) == IF s # <<>> /\ IsSpace(Head(s)) THEN LStripSpace(Tail(s)) ELSE s

RECURSIVE RStripSpace(_)
\* s.rstrip()
RStripSpace(s) ==
    IF s # <<>> /\ IsSpace(s[Len(s)]) THEN RStripSpace(SubSeq(s, 1, Len(s) - 1)) ELSE s

\* s.strip()
Strip(s) == RStripSpace(LStripSpace(s))

RECURSIVE JoinSplit(_)
\* ' '.join(s.split())
JoinSplit(s) ==
    LET t == LStripSpace(s)
        n == IF \E i \in DOMAIN t : IsSpace(t[i])
             THEN (CHOOSE i \in DOMAIN t : IsSpace(t[i]) /\ \A j \in 1..(i - 1) : ~IsSpace(t[j])) - 1
             ELSE Len(t)
        rest == JoinSplit(Drop(t, n))
    IN  IF t = <<>> THEN <<>>
        ELSE IF rest = <<>> THEN Take(t, n)
        ELSE Take(t, n) \o <<" ">> \o rest

\* s.ljust(n)
LJust(s, n) == IF n > Len(s) THEN s \o Repeat(" ", n - Len(s)) ELSE s

\* s.rfind(c) + 1
RFindEnd(s, c) ==
    IF \E i \in DOMAIN s : s[i] = c
    THEN CHOOSE i \in DOMAIN s : s[i] = c /\ \A j \in (i + 1)..Len(s) : s[j] # c
    ELSE 0

\* s.split(c)[0]
SplitHead(s, c) ==
    IF \E i \in DOMAIN s : s[i] = c
    THEN Take(s, (CHOOSE i \in DOMAIN s : s[i] = c /\ \A j \in 1..(i - 1) : s[j] # c) - 1)
    ELSE s

\* the length of the longest run of \w characters of s that starts at i
WordRun(s, i) ==
    IF i > Len(s) \/ ~IsWord(s[i]) THEN 0
    ELSE (CHOOSE j \in i..Len(s) :
              /\ \A k \in i..j : IsWord(s[k])
              /\ (j = Len(s) \/ ~IsWord(s[j + 1]))) - i + 1

\* ARRAY_REGEX.match(s), r"\w+(\[\w+\])": group 1, or <<>> for no match
ARRAY_REGEX(s) ==
    LET n1 == WordRun(s, 1)
        n2 == WordRun(s, n1 + 2)
    IN  IF /\ n1 >= 1
           /\ Len(s) >= n1 + 1 /\ s[n1 + 1] = "["
           /\ n2 >= 1
           /\ Len(s) >= n1 + n2 + 2 /\ s[n1 + n2 + 2] = "]"
        THEN SubSeq(s, n1 + 1, n1 + n2 + 2)
        ELSE <<>>

RECURSIVE SkipRefs(_)
\* the rest of s after the match of (?:&|\[\d*\])*
SkipRefs(s) ==
    IF s = <<>> THEN s
    ELSE IF Head(s) = "&" THEN SkipRefs(Tail(s))
    ELSE IF Head(s) = "["
    THEN LET n == CHOOSE k \in 0..(Len(s) - 1) :
                      /\ \A j \in 2..(k + 1) : IsDigit(s[j])
                      /\ (k + 2 > Len(s) \/ ~IsDigit(s[k + 2]))
         IN  IF n + 2 <= Len(s) /\ s[n + 2] = "]" THEN SkipRefs(Drop(s, n + 2)) ELSE s
    ELSE s

\* group 1 of re.match(r'(?:&|\[\d*\])*(?:C\.Vk)?(.*)', s)
TypeToCheck(s) ==
    LET r == SkipRefs(s)
    IN  IF StartsWith(r, <<"C", ".", "V", "k">>) THEN Drop(r, 4) ELSE r

s_const_sp == <<"c", "o", "n", "s", "t", " ">>

s_const == <<"c", "o", "n", "s", "t">>

s_pfn_ == <<"p", "f", "n", "_">>

s_unsafe_nil == <<" ", "=", " ", "u", "n", "s", "a", "f", "e", " ", "{", " ", "n", "i", "l", " ", "}">>

s_unsafe_nil_tight == <<" ", "=", " ", "u", "n", "s", "a", "f", "e", "{", " ", "n", "i", "l", " ", "}">>

s_module == <<"m", "o", "d", "u", "l", "e">>

s_vkmodule == <<"v", "k", "m", "o", "d", "u", "l", "e">>

s_type == <<"t", "y", "p", "e">>

s_type_param == <<"t", "y", "p", "e", "_", "p", "a", "r", "a", "m">>

s_pNext == <<"p", "N", "e", "x", "t">>

s_pUserData == <<"p", "U", "s", "e", "r", "D", "a", "t", "a">>

s_sType == <<"s", "T", "y", "p", "e">>

s_mut == <<"m", "u", "t">>

s_StructureType_dot == <<" ", "=", " ", "S", "t", "r", "u", "c", "t", "u", "r", "e", "T", "y", "p", "e", ".">>

s_indent == <<" ", " ", " ", " ">>

\* the keyword arguments of makeVParamDecl that change its result
ParamFlags(do_struct_members, do_c_to_v_func_call_params, keep_vk_member_name, do_array_voidptr) ==
    [ do_struct_members |-> do_struct_members,
      do_c_to_v_func_call_params |-> do_c_to_v_func_call_params,
      keep_vk_member_name |-> keep_vk_member_name,
      do_array_voidptr |-> do_array_voidptr ]

\* a faulty search: the last entry that matches is returned
find_matching_structure_type_enum_Last(T, name) ==
    LET name_no_underscore == Lower(RemoveChar(name, "_"))
        hits == { i \in DOMAIN T.STRUCTURE_TYPES :
                      RemoveChar(T.STRUCTURE_TYPES[i], "_") = name_no_underscore }
    IN  IF hits = {} THEN <<>>
        ELSE T.STRUCTURE_TYPES[CHOOSE i \in hits : \A j \in hits : i >= j]

\* VOutputGenerator.find_matching_structure_type_enum
find_matching_structure_type_enum(T, name) ==
    LET name_no_underscore == Lower(RemoveChar(name, "_"))
        hits == { i \in DOMAIN T.STRUCTURE_TYPES :
                      RemoveChar(T.STRUCTURE_TYPES[i], "_") = name_no_underscore }
    IN  IF hits = {} THEN <<>>
        ELSE T.STRUCTURE_TYPES[CHOOSE i \in hits : \A j \in hits : i <= j]

\* makeVParamDecl, tag 'type': the V type of the C type text_plus_tail
ParamVType(T, text_plus_tail) ==
    LET v_type == removeVk(text_plus_tail)
        ptr_count == Count(v_type, "*")
        v_type_without_pointer ==
            Strip(RemoveChar(Replace(Replace(v_type, s_const_sp, <<>>), s_const, <<>>), "*"))
    IN  IF InTypeMap(text_plus_tail) THEN TYPE_MAP(text_plus_tail)
        ELSE IF ptr_count > 0
        THEN IF InTypeMap(v_type_without_pointer)
             THEN IF TYPE_MAP(v_type_without_pointer) = <<>>
                  THEN Repeat("&", ptr_count - 1) \o s_voidptr
                  ELSE Repeat("&", ptr_count) \o TYPE_MAP(v_type_without_pointer)
             ELSE Repeat("&", ptr_count) \o v_type_without_pointer
        ELSE IF InList(v_type, T.C_STRUCT_ARR) THEN v_type
        ELSE IF StartsWith(Lower(v_type), s_pfn_) THEN v_type \o s_unsafe_nil
        ELSE v_type

\* makeVParamDecl: the name and the type after ARRAY_REGEX has been tried
\* on the name, once
ParamArray(v_name, v_type, F) ==
    LET group1 == ARRAY_REGEX(v_name)
        last_index_of_arr == RFindEnd(v_type, "]")
        dim == removeVk(RemoveChar(RemoveChar(Lower(group1), "["), "]"))
    IN  IF group1 = <<>> THEN [v_name |-> v_name, v_type |-> v_type]
        ELSE [ v_name |-> Replace(v_name, group1, <<>>),
               v_type |-> IF F.do_array_voidptr THEN s_voidptr
                          ELSE Take(v_type, last_index_of_arr) \o <<"[">> \o dim \o <<"]">>
                               \o Drop(v_type, last_index_of_arr) ]

\* makeVParamDecl: the default value of the member sType
ParamSType(T, typeName) ==
    LET struct_type_enum == Lower(v_camel_to_snake_case(typeName))
        found == Lower(find_matching_structure_type_enum(T, typeName))
    IN  IF InList(struct_type_enum, T.STRUCTURE_TYPES) THEN s_StructureType_dot \o struct_type_enum
        ELSE IF found # <<>> THEN s_StructureType_dot \o found
        ELSE <<>>

\* makeVParamDecl: the declaration of one pass of the loop, from the name
\* and the type the pass has reached
ParamDeclOf(T, typeName, aligncol, F, v_name, v_type) ==
    LET d0 == IF ~F.do_struct_members /\ ~F.do_c_to_v_func_call_params
              THEN <<" ">> \o v_name \o <<" ">> \o v_type
              ELSE IF F.do_c_to_v_func_call_params THEN s_indent \o v_name
              ELSE s_indent \o LJust(v_name, aligncol - 1) \o <<" ">> \o v_type
        d1 == IF v_name = s_pNext /\ v_type = s_voidptr THEN d0 \o s_unsafe_nil_tight ELSE d0
        \* (a member is declared after its type: v_type is not empty here)
        d2 == IF F.do_struct_members /\ v_name = s_pNext /\ EndsWith(typeName, v_type)
                 /\ v_type # <<>>
              THEN Replace(d1, v_type, s_voidptr) \o s_unsafe_nil_tight ELSE d1
        d3 == IF v_name = s_pUserData /\ v_type = s_voidptr THEN d2 \o s_unsafe_nil_tight ELSE d2
    IN  IF v_name = s_sType THEN d3 \o ParamSType(T, typeName) ELSE d3

\* makeVParamDecl: one pass of the loop over the children of the element
ParamStep(T, typeName, aligncol, F, st, elem) ==
    LET text_plus_tail == elem.text \o Strip(elem.tail)
        v_type0 == IF elem.tag = "type" THEN ParamVType(T, text_plus_tail) ELSE st.v_type
        named == st.prefix \o text_plus_tail
        v_name0 == IF elem.tag = "type" THEN st.v_name
                   ELSE IF elem.tag = "enum" THEN st.v_name \o text_plus_tail
                   ELSE IF F.keep_vk_member_name THEN named ELSE removeVk(named)
    IN  With(ParamArray(v_name0, v_type0, F), LAMBDA a :
        With(SplitHead(IF ~F.do_struct_members /\ a.v_name = s_module THEN s_vkmodule ELSE a.v_name, ":"),
             LAMBDA v_name2 :
        With(IF F.keep_vk_member_name THEN v_name2 ELSE v_camel_to_snake_case(v_name2), LAMBDA v_name3 :
        With(IF ~F.do_struct_members /\ v_name3 = s_type THEN s_type_param ELSE v_name3, LAMBDA v_name4 :
            [ v_type |-> a.v_type,
              v_name |-> v_name4,
              is_const |-> st.is_const \/ Contains(elem.text, s_const_sp)
                           \/ Contains(st.prefix, s_const_sp),
              paramdecl |-> ParamDeclOf(T, typeName, aligncol, F, v_name4, a.v_type),
              prefix |-> <<>> ]))))

RECURSIVE ParamLoop(_, _, _, _, _, _)
\* makeVParamDecl: `for elem in param`
ParamLoop(T, typeName, aligncol, F, st, elems) ==
    IF elems = <<>> THEN st
    ELSE CHOOSE R \in { ParamLoop(T, typeName, aligncol, F, s1, Tail(elems))
                        : s1 \in {ParamStep(T, typeName, aligncol, F, st, Head(elems))} } : TRUE

\* makeVParamDecl: a parameter that is not const takes 'mut', unless its
\* type is an enum type, a base type or an alias of a base type
ParamIsMut(T, st, F) ==
    LET type_to_check == TypeToCheck(st.v_type)
    IN  /\ ~st.is_const
        /\ ~F.do_struct_members
        /\ ~InList(type_to_check, T.ENUM_TYPES)
        /\ ~InList(type_to_check, BASE_TYPES_ARR)
        /\ \/ ~InDict(type_to_check, T.ALIAS_TO_BASE_TYPE_MAP)
           \/ ~InList(T.ALIAS_TO_BASE_TYPE_MAP[type_to_check], BASE_TYPES_ARR)

\* the result of makeVParamDecl: the exception raised or the declaration,
\* with the name and the type it was made of
ParamResult(e, st, decl) ==
    [err |-> e, paramdecl |-> decl, v_name |-> st.v_name, v_type |-> st.v_type,
     is_const |-> st.is_const]

\* the locals of makeVParamDecl ahead of the loop
ParamStart(param) ==
    [v_type |-> <<>>, v_name |-> <<>>, is_const |-> FALSE, paramdecl |-> s_indent,
     prefix |-> param.text]

\* VOutputGenerator.makeVParamDecl
makeVParamDecl(T, opts, typeName, param, aligncol, F) ==
    IF opts = <<>> THEN ParamResult("MissingGeneratorOptionsError", ParamStart(param), <<>>)
    ELSE IF ~opts[1].conventions
    THEN ParamResult("MissingGeneratorOptionsConventionsError", ParamStart(param), <<>>)
    ELSE CHOOSE R \in
        { ParamResult("none", st,
              LET decl == IF ParamIsMut(T, st, F) THEN s_mut \o st.paramdecl ELSE st.paramdecl
              IN  IF aligncol = 0 THEN JoinSplit(decl) ELSE decl)
          : st \in {ParamLoop(T, typeName, aligncol, F, ParamStart(param), param.elems)} } : TRUE

(***************************************************************************)
(* Generator options (the genOpts object and its conventions sub-object).  *)
(* A missing string (None) is the empty sequence.                          *)
(***************************************************************************)
s_ifdef == <<"i", "f", "d", "e", "f">>

d_ifdef == <<"#", "i", "f", "d", "e", "f">>

d_ifndef == <<"#", "i", "f", "n", "d", "e", "f">>

s_VK_NO_PROTOTYPES == <<"V", "K", "_", "N", "O", "_", "P", "R", "O", "T", "O", "T", "Y", "P", "E", "S">>

s_VK_EXT_PROTOTYPES == <<"V", "K", "_", "E", "X", "T", "_", "P", "R", "O", "T", "O", "T", "Y", "P", "E", "S">>

GenOpts(fp, pf, pp, pps, pe, pes, conv, cmt, misra) ==
    [ genFuncPointers          |-> fp,
      protectFeature           |-> pf,
      protectProto             |-> pp,
      protectProtoStr          |-> pps,
      protectExtensionProto    |-> pe,
      protectExtensionProtoStr |-> pes,
      conventions              |-> conv,    \* FALSE: genOpts.conventions is None
      protectProtoComment      |-> cmt,     \* conventions.protectProtoComment
      misracppstyle            |-> misra,
      alignFuncParam           |-> 0,       \* the default of VGeneratorOptions
      protectFile              |-> TRUE,
      filename                 |-> TRUE,    \* a file name is given
      prefixText               |-> FALSE ]

\* the options objects a run is started with; genOpts holds an index into
\* this table, and 0 stands for None
Options ==
    << GenOpts(TRUE, TRUE, d_ifndef, s_VK_NO_PROTOTYPES, d_ifdef, s_VK_EXT_PROTOTYPES, TRUE, TRUE, FALSE),
       GenOpts(FALSE, FALSE, <<>>, <<>>, <<>>, <<>>, TRUE, FALSE, FALSE),
       GenOpts(TRUE, FALSE, <<>>, <<>>, d_ifdef, s_VK_EXT_PROTOTYPES, TRUE, FALSE, TRUE),
       GenOpts(FALSE, TRUE, d_ifndef, s_VK_NO_PROTOTYPES, <<>>, <<>>, TRUE, TRUE, FALSE),
       GenOpts(TRUE, TRUE, <<>>, <<>>, d_ifdef, <<>>, TRUE, TRUE, FALSE) >>

(***************************************************************************)
(* The registry.  A declaration is a record; the fields a kind of          *)
(* declaration does not have hold <<>>, 0 or FALSE.  after is the set of   *)
(* declarations the registry driver emits before this one because it       *)
(* refers to them.                                                         *)
(***************************************************************************)
Decl(id, kind, name, category, alias, elems, ctype, tail, trig, repl, members, after) ==
    [ id |-> id, kind |-> kind, name |-> name, category |-> category, alias |-> alias,
      elems |-> elems, ctype |-> ctype, tail |-> tail,
      cTriggers |-> trig, cReplaced |-> repl, cDeprecated |-> FALSE, cHelper |-> <<>>,
      bitwidth |-> 0, members |-> members, after |-> after ]

\* typedef <type>ctype</type> <name>name</name>;
TypedefDecl(id, name, ctype) ==
    Decl(id, "type", name, "basetype", <<>>, "type_name", ctype, <<";">>, 0, FALSE, <<>>, {})

\* <type>VK_DEFINE_HANDLE</type>(<name>name</name>)
HandleDecl(id, name) ==
    Decl(id, "type", name, "handle", <<>>, "type_name", s_VK_DEFINE_HANDLE, <<")">>, 0, FALSE, <<>>, {})

\* <type category=... name=... alias=.../>
AliasDecl(id, name, category, alias, after) ==
    Decl(id, "type", name, category, alias, "none", <<>>, <<>>, 0, FALSE, <<>>, after)

\* <type category="include">#include "name"</type>
IncludeDecl(id, name) ==
    Decl(id, "type", name, "include", <<>>, "none", <<>>, <<>>, 0, FALSE, <<>>, {})

\* #define <name>VK_DEFINE_HANDLE</name>(object) ..., a key of REPLACEMENT_MAP
\* that contains the entry '#define VK_DEFINE_HANDLE' of REPLACEMENT_CONTAINS_ARR
DefineDecl(id, name, tail) ==
    Decl(id, "type", name, "define", <<>>, "name", <<>>, tail, 1, TRUE, <<>>, {})

\* <type category="struct" name=...> with its members
StructDecl(id, name, members, after) ==
    Decl(id, "type", name, "struct", <<>>, "none", <<>>, <<>>, 0, FALSE, members, after)

\* an integer: its sign and the decimal digits of its magnitude
IntVal(neg, digits) == [neg |-> neg, mag |-> digits]

\* None in the place of an integer: no digits
None == [neg |-> FALSE, mag |-> <<>>]

\* <enum name=... value=.../> of a group
EnumMember(name, numVal, strVal, required, protect, extends) ==
    [ name |-> name, numVal |-> numVal, strVal |-> strVal, required |-> required,
      protect |-> protect, extends |-> extends ]

\* a member of the core API with the value n: required, without a platform guard
CoreMember(name, n) == EnumMember(name, IntVal(FALSE, n), n, TRUE, <<>>, FALSE)

\* <enums name=... type=...> with its members
GroupDecl(id, name, gtype, members) ==
    Decl(id, "group", name, gtype, <<>>, "none", <<>>, <<>>, 0, FALSE, members, {})

\* <type category="enum" name=... alias=.../>
GroupAliasDecl(id, name, alias, after) ==
    Decl(id, "group", name, "enum", alias, "none", <<>>, <<>>, 0, FALSE, <<>>, after)

\* <enum name=... value=.../> outside a group: an API constant
EnumDecl(id, name) ==
    Decl(id, "enum", name, "enum", <<>>, "none", <<>>, <<>>, 0, FALSE, <<>>, {})

n_VkFlags == <<"V", "k", "F", "l", "a", "g", "s">>

n_VkOctet == <<"V", "k", "O", "c", "t", "e", "t">>

n_VkDevice == <<"V", "k", "D", "e", "v", "i", "c", "e">>

n_VkAccessFlags == <<"V", "k", "A", "c", "c", "e", "s", "s", "F", "l", "a", "g", "s">>

n_VkAccessFlagsKHR == <<"V", "k", "A", "c", "c", "e", "s", "s", "F", "l", "a", "g", "s", "K", "H", "R">>

n_VkOctetFlags == <<"V", "k", "O", "c", "t", "e", "t", "F", "l", "a", "g", "s">>

n_VkDeviceKHR == <<"V", "k", "D", "e", "v", "i", "c", "e", "K", "H", "R">>

n_VkDeviceEXT == <<"V", "k", "D", "e", "v", "i", "c", "e", "E", "X", "T">>

n_vk_platform == <<"v", "k", "_", "p", "l", "a", "t", "f", "o", "r", "m">>

n_VkExtent2D == <<"V", "k", "E", "x", "t", "e", "n", "t", "2", "D">>

n_VkResult == <<"V", "k", "R", "e", "s", "u", "l", "t">>

n_VkResultKHR == <<"V", "k", "R", "e", "s", "u", "l", "t", "K", "H", "R">>

n_VkStructureType == <<"V", "k", "S", "t", "r", "u", "c", "t", "u", "r", "e", "T", "y", "p", "e">>

n_VK_MAX_NAME == <<"V", "K", "_", "M", "A", "X", "_", "N", "A", "M", "E">>

n_vkCreateDevice == <<"v", "k", "C", "r", "e", "a", "t", "e", "D", "e", "v", "i", "c", "e">>

n_vkDestroyDevice == <<"v", "k", "D", "e", "s", "t", "r", "o", "y", "D", "e", "v", "i", "c", "e">>

n_vkCmdTraceRaysKHR == <<"v", "k", "C", "m", "d", "T", "r", "a", "c", "e", "R", "a", "y", "s", "K", "H", "R">>

n_uint32_t == <<"u", "i", "n", "t", "3", "2", "_", "t">>

n_uint8_t == <<"u", "i", "n", "t", "8", "_", "t">>

m_success == <<"s", "u", "c", "c", "e", "s", "s">>

n_VK_SUCCESS == <<"V", "K", "_", "S", "U", "C", "C", "E", "S", "S">>

n_VK_STRUCTURE_TYPE_APPLICATION_INFO == <<"V", "K", "_", "S", "T", "R", "U", "C", "T", "U", "R", "E", "_", "T", "Y", "P", "E", "_", "A", "P", "P", "L", "I", "C", "A", "T", "I", "O", "N", "_", "I", "N", "F", "O">>

n_VK_STRUCTURE_TYPE_EXTENT_2D == <<"V", "K", "_", "S", "T", "R", "U", "C", "T", "U", "R", "E", "_", "T", "Y", "P", "E", "_", "E", "X", "T", "E", "N", "T", "_", "2", "D">>

m_application_info == <<"a", "p", "p", "l", "i", "c", "a", "t", "i", "o", "n", "_", "i", "n", "f", "o">>

m_extent2d == <<"e", "x", "t", "e", "n", "t", "2", "d">>

t_define_handle == <<"(", "o", "b", "j", "e", "c", "t", ")", " ", "t", "y", "p", "e", "d", "e", "f", " ", "s", "t", "r", "u", "c", "t", " ", "o", "b", "j", "e", "c", "t", "#", "#", "_", "T", "*", " ", "o", "b", "j", "e", "c", "t", ";">>

\* the registry of the ordering runs: declarations of every section kind, in
\* an order that is not the section order
n_device == <<"d", "e", "v", "i", "c", "e">>

\* <param><type>VkDevice</type> <name>device</name></param>
DeviceParam == << Param(<<>>, <<Elem("type", n_VkDevice, <<" ">>), Elem("name", n_device, <<>>)>>) >>

\* <command><proto><type>rtype</type>rtail<name>name</name></proto> and
\* the <param> elements params; an alias command is given the elements of
\* the command it names
CommandDecl(id, name, alias, rtype, rtail, params, after) ==
    Decl(id, "command", name, "command", alias, "none", rtype, rtail, 0, FALSE, params, after)

\* VkResult name(VkDevice device)
CmdDecl(id, name, alias, after) ==
    CommandDecl(id, name, alias, n_VkResult, <<" ">>, DeviceParam, after)

n_width == <<"w", "i", "d", "t", "h">>

n_height == <<"h", "e", "i", "g", "h", "t">>

\* <member><type>uint32_t</type> <name>width</name></member> and height
Extent2DMembers ==
    << Param(<<>>, <<Elem("type", n_uint32_t, <<" ">>), Elem("name", n_width, <<>>)>>),
       Param(<<>>, <<Elem("type", n_uint32_t, <<" ">>), Elem("name", n_height, <<>>)>>) >>

RegistryOrder ==
    << CmdDecl(1, n_vkCreateDevice, <<>>, {}),
       StructDecl(2, n_VkExtent2D, Extent2DMembers, {}),
       EnumDecl(3, n_VK_MAX_NAME),
       TypedefDecl(4, n_VkFlags, n_uint32_t),
       TypedefDecl(5, n_VkOctet, n_uint8_t),
       CmdDecl(6, n_vkCmdTraceRaysKHR, <<>>, {}),
       IncludeDecl(7, n_vk_platform) >>

\* the registry of the table runs: types, aliases of types and groups
RegistryTables ==
    << TypedefDecl(1, n_VkFlags, n_uint32_t),
       TypedefDecl(2, n_VkOctet, n_uint8_t),
       HandleDecl(3, n_VkDevice),
       AliasDecl(4, n_VkAccessFlags, "bitmask", n_VkFlags, {1}),
       AliasDecl(5, n_VkAccessFlagsKHR, "bitmask", n_VkAccessFlags, {4}),
       AliasDecl(6, n_VkOctetFlags, "bitmask", n_VkOctet, {2}),
       AliasDecl(7, n_VkDeviceKHR, "handle", n_VkDevice, {3}),
       AliasDecl(8, n_VkDeviceEXT, "handle", n_VkDeviceKHR, {7}),
       GroupDecl(9, n_VkStructureType, "enum",
                 <<CoreMember(n_VK_STRUCTURE_TYPE_APPLICATION_INFO, <<"0">>),
                   CoreMember(n_VK_STRUCTURE_TYPE_EXTENT_2D, <<"1">>)>>),
       GroupDecl(10, n_VkResult, "enum", <<CoreMember(n_VK_SUCCESS, <<"0">>)>>),
       GroupAliasDecl(11, n_VkResultKHR, n_VkResult, {10}),
       StructDecl(12, n_VkExtent2D, Extent2DMembers, {}),
       DefineDecl(13, s_VK_DEFINE_HANDLE, t_define_handle) >>

\* the registry of a run
RegistryOf(sc) == IF sc = "order" THEN RegistryOrder ELSE RegistryTables

\* the declaration with the identifier id
DeclOf(reg, id) == reg[CHOOSE i \in DOMAIN reg : reg[i].id = id]

\* <feature>/<extension> elements: name and protect attribute
Feature(name, protect) == [name |-> name, protect |-> protect]

n_VK_VERSION_1_0 == <<"V", "K", "_", "V", "E", "R", "S", "I", "O", "N", "_", "1", "_", "0">>

n_VK_KHR_surface == <<"V", "K", "_", "K", "H", "R", "_", "s", "u", "r", "f", "a", "c", "e">>

n_VK_USE_PLATFORM_X == <<"V", "K", "_", "U", "S", "E", "_", "P", "L", "A", "T", "F", "O", "R", "M", "_", "X">>

s_VK_ == <<"V", "K", "_">>

s_VERSION_ == <<"V", "E", "R", "S", "I", "O", "N", "_">>

Features ==
    << Feature(n_VK_VERSION_1_0, <<>>),
       Feature(n_VK_KHR_surface, n_VK_USE_PLATFORM_X) >>

(***************************************************************************)
(* The state the callbacks of one generator instance work on:              *)
(*   sections, feature_not_empty  the instance attributes                  *)
(*   T                            the class-level tables                   *)
(*   err                          "none", or the exception or exit that    *)
(*                                ended the callback                       *)
(*   f, n                         history: the number of the feature being *)
(*                                generated and the number of fragments    *)
(*                                appended to it so far                    *)
(* A fragment is a text together with the feature it was appended to and   *)
(* its position in the order of appending.                                 *)
(***************************************************************************)
EmptySections == [s \in Range(ALL_SECTIONS) |-> <<>>]

Fragment(f, seq, sec, txt) == [f |-> f, seq |-> seq, sec |-> sec, txt |-> txt]

Raise(G, e) == IF G.err = "none" THEN [G EXCEPT !.err = e] ELSE G

s_nl == <<"\n">>

s_bs_bs == <<"\\", "\\">>

s_bs_n == <<"\\", "n">>

\* VOutputGenerator.escStr on a string
escStrSeq(s) == Replace(Replace(s, s_bs_bs, s_bs_bs), s_bs_n, s_bs_n)

\* VOutputGenerator.escStr on a text
escStr(txt) == [txt EXCEPT !.n = escStrSeq(@), !.t = escStrSeq(@)]

\* esc_text in self.REPLACEMENT_MAP: the keys are C renderings of defines
REPLACEMENT_MAP_HasKey(txt) == txt.k = "c" /\ txt.repl

\* the number of entries of REPLACEMENT_CONTAINS_ARR the text contains
REPLACEMENT_CONTAINS_ARR_Count(txt) == txt.trig

\* self.REPLACEMENT_EXACT_TEXT_ARR.append(esc_text), once for every entry
\* of REPLACEMENT_CONTAINS_ARR the text contains
CaptureText(T, txt, esc_text) ==
    [T EXCEPT !.REPLACEMENT_EXACT_TEXT_ARR =
        @ \o [i \in 1..REPLACEMENT_CONTAINS_ARR_Count(txt) |-> esc_text]]

s_cmd_set_fragment_shading_rate_enum_nv == <<"c", "m", "d", "_", "s", "e", "t", "_", "f", "r", "a", "g", "m", "e", "n", "t", "_", "s", "h", "a", "d", "i", "n", "g", "_", "r", "a", "t", "e", "_", "e", "n", "u", "m", "_", "n", "v">>

s_cmd_set_fragment_shading_rate_khr == <<"c", "m", "d", "_", "s", "e", "t", "_", "f", "r", "a", "g", "m", "e", "n", "t", "_", "s", "h", "a", "d", "i", "n", "g", "_", "r", "a", "t", "e", "_", "k", "h", "r">>

\* the two wrappers appendSection puts in a comment
IsShadingRateWrapper(txt) ==
    /\ txt.k = "command"
    /\ txt.n \in {s_cmd_set_fragment_shading_rate_enum_nv, s_cmd_set_fragment_shading_rate_khr}

\* the body of VOutputGenerator.appendSection, after the test for a missing
\* section
appendSectionText(G, section, text0) ==
    LET text == IF IsShadingRateWrapper(text0) THEN [text0 EXCEPT !.k = "comment"] ELSE text0
        esc_text == escStr(text)
        T1 == CaptureText(G.T, text, esc_text)
        text1 == IF REPLACEMENT_MAP_HasKey(esc_text) THEN EmptyText ELSE text
        frag == Fragment(G.f, G.n + 1, section, text1)
    IN  [G EXCEPT !.sections[section] = Append(@, frag),
                  !.feature_not_empty = TRUE,
                  !.T = T1,
                  !.n = @ + 1]

\* VOutputGenerator.appendSection; section "None" is a missing category.
\* (The state and the text are bound by a quantifier, which evaluates each
\* of them once.)
appendSection(G0, section, text0) ==
    CHOOSE R \in { IF G.err # "none" THEN G
                   ELSE IF section = "None" THEN Raise(G, "exit")
                   ELSE appendSectionText(G, section, text)
                   : G \in {G0}, text \in {text0} } : TRUE

\* the command names VOutputGeneratorBK.appendSection excludes (of the
\* literal list, the names the registry of the model declares)
prototype_functions == {n_vkCmdTraceRaysKHR}

\* a faulty appendSection of VOutputGeneratorBK: the flag is set although the
\* text of an excluded command is dropped
appendSectionTextBK_FlagAlways(G, section, text0) ==
    LET esc_text == escStr(text0)
        T1 == CaptureText(G.T, text0, esc_text)
        text == IF REPLACEMENT_MAP_HasKey(esc_text) THEN EmptyText ELSE text0
        frag == Fragment(G.f, G.n + 1, section, text)
    IN  IF \A p \in prototype_functions : ~Contains(text.t, p)
        THEN [G EXCEPT !.sections[section] = Append(@, frag),
                       !.feature_not_empty = TRUE,
                       !.T = T1,
                       !.n = @ + 1]
        ELSE [G EXCEPT !.T = T1, !.feature_not_empty = TRUE]

\* the body of VOutputGeneratorBK.appendSection, after the test for a
\* missing section
appendSectionTextBK(G, section, text0) ==
    LET esc_text == escStr(text0)
        T1 == CaptureText(G.T, text0, esc_text)
        text == IF REPLACEMENT_MAP_HasKey(esc_text) THEN EmptyText ELSE text0
        frag == Fragment(G.f, G.n + 1, section, text)
    IN  IF \A p \in prototype_functions : ~Contains(text.t, p)
        THEN [G EXCEPT !.sections[section] = Append(@, frag),
                       !.feature_not_empty = TRUE,
                       !.T = T1,
                       !.n = @ + 1]
        ELSE [G EXCEPT !.T = T1]

\* VOutputGeneratorBK.appendSection
appendSectionBK(G0, section, text0) ==
    CHOOSE R \in { IF G.err # "none" THEN G
                   ELSE IF section = "None" THEN Raise(G, "exit")
                   ELSE appendSectionTextBK(G, section, text)
                   : G \in {G0}, text \in {text0} } : TRUE

(***************************************************************************)
(* The callbacks of the primary generator, as functions of the state G,    *)
(* the options object opts (<<>> for None, else <<options>>) and the       *)
(* declaration d.                                                          *)
(***************************************************************************)
s_pub_type == <<"p", "u", "b", " ", "t", "y", "p", "e", " ">>

s_eq == <<" ", "=", " ">>

s_typedef_struct == <<"\n", "@", "[", "t", "y", "p", "e", "d", "e", "f", "]", "\n", "p", "u", "b", " ", "s", "t", "r", "u", "c", "t", " ">>

s_open_pub_mut == <<" ", "{", "\n", "p", "u", "b", " ", "m", "u", "t", ":", "\n">>

s_close == <<"}", "\n">>

RECURSIVE getCParamTypeLengthFrom(_, _, _)
\* OutputGenerator.getCParamTypeLength, `for elem in param`: the length of
\* the declaration ahead of the <name> child, without the spaces at its end
getCParamTypeLengthFrom(paramdecl, newLen, elems) ==
    IF elems = <<>> THEN newLen
    ELSE LET e == Head(elems)
         IN  getCParamTypeLengthFrom(paramdecl \o e.text \o e.tail,
                                     IF e.tag = "name" THEN Len(RStripSpace(paramdecl)) ELSE newLen,
                                     Tail(elems))

\* OutputGenerator.getCParamTypeLength
getCParamTypeLength(param) == getCParamTypeLengthFrom(s_indent \o param.text, 0, param.elems)

\* OutputGenerator.getMaxCParamTypeLength of a struct that has members
getMaxCParamTypeLength(members) ==
    CHOOSE n \in { getCParamTypeLength(members[i]) : i \in DOMAIN members } :
        \A i \in DOMAIN members : getCParamTypeLength(members[i]) <= n

RECURSIVE StructMembers(_, _, _, _, _, _)
\* genStruct, `for member in typeElem.findall('.//member')`: st is [err, body]
StructMembers(T, opts, typeName, aligncol, st, members) ==
    IF members = <<>> \/ st.err # "none" THEN st
    ELSE CHOOSE R \in
        { StructMembers(T, opts, typeName, aligncol,
                        IF r.err # "none" THEN [st EXCEPT !.err = r.err]
                        ELSE [st EXCEPT !.body = @ \o r.paramdecl \o <<"\n">>],
                        Tail(members))
          : r \in {makeVParamDecl(T, opts, typeName, Head(members), aligncol,
                                  ParamFlags(TRUE, FALSE, TRUE, FALSE))} } : TRUE

\* VOutputGenerator.genStruct, as genCType calls it for genType
\* (keep_vk_member_name = True); max() of no members raises ValueError
genStruct(G, opts, d) ==
    IF opts = <<>> THEN Raise(G, "MissingGeneratorOptionsError")
    ELSE LET typeName == removeVk(d.name)
             r == v_translate_c_name_to_basetype(G.T, typeName, d.alias)
             T1 == IF InDict(typeName, G.T.ALIAS_TO_BASE_TYPE_MAP) THEN G.T
                   ELSE SetAlias(G.T, typeName, s_C_ \o d.name)
             G1 == [G EXCEPT !.T = T1]
         IN  IF d.alias # <<>>
             THEN appendSection([G EXCEPT !.T = r.T], "struct", Text("type", r.name, r.alias))
             ELSE IF d.members = <<>> THEN Raise(G1, "ValueError")
             ELSE CHOOSE R \in
                 { IF st.err # "none" THEN Raise(G1, st.err)
                   ELSE appendSection(G1, "struct",
                            Text("struct", typeName,
                                 s_pub_type \o typeName \o s_eq \o s_C_ \o d.name
                                 \o s_typedef_struct \o s_C_ \o d.name \o s_open_pub_mut
                                 \o st.body \o s_close))
                   : st \in {StructMembers(T1, opts, typeName, getMaxCParamTypeLength(d.members) + 4,
                                           [err |-> "none", body |-> <<>>], d.members)} } : TRUE

\* the C rendering genCType returns for a type that is no struct or union
CBody(d) ==
    [ k |-> "c", n |-> d.name, t |-> IF d.alias # <<>> THEN d.alias ELSE d.ctype \o d.tail,
      trig |-> IF d.alias # <<>> THEN 0 ELSE d.cTriggers,
      repl |-> d.alias = <<>> /\ d.cReplaced ]

\* the text of the hand-written helper genType emits in the place of a
\* version macro
HelperText(h) == Text("helper", h, <<>>)

\* VOutputGenerator.genType after genVType has returned v
genTypeBody(G, d, c_body, v) ==
    LET G1 == [G EXCEPT !.T = v.T]
        body == IF REPLACEMENT_MAP_HasKey(c_body) THEN EmptyText ELSE v.body
        section == IF REPLACEMENT_MAP_HasKey(c_body) THEN SectionOfType(d) ELSE v.section
    IN  IF v.err # "none" THEN Raise(G1, v.err)
        ELSE IF ~v.some THEN G1
        ELSE appendSection(G1, section,
                           IF d.cHelper # <<>> THEN HelperText(d.cHelper) ELSE body)

\* VOutputGenerator.genType
genType(G, opts, d) ==
    IF d.category \in {"struct", "union"} THEN genStruct(G, opts, d)
    ELSE IF opts = <<>> THEN Raise(G, "MissingGeneratorOptionsError")
    ELSE IF d.cDeprecated THEN G
    ELSE LET c_body == CBody(d)
             T1 == CaptureText(G.T, c_body, escStr(c_body))
         IN  CHOOSE R \in { genTypeBody(G, d, c_body, v) : v \in {genVType(T1, opts, d)} } : TRUE

(***************************************************************************)
(* Groups.  A member of a group is the record                               *)
(*   [name, numVal, strVal, required, protect, extends]                     *)
(* numVal and strVal are the pair enumToValue returns for it: the number    *)
(* and the text of its value, or None and the name it is an alias of.  A    *)
(* number is kept as a sign and its decimal digits, since the values to be  *)
(* told apart go beyond 2^64.                                               *)
(***************************************************************************)
UpperChar(c) ==
    IF IsLower(c) THEN UpperChars[CHOOSE i \in DOMAIN LowerChars : LowerChars[i] = c] ELSE c

\* s.upper()
Upper(s) == [i \in DOMAIN s |-> UpperChar(s[i])]

\* the value of a decimal digit
DigitValue(c) == (CHOOSE i \in DOMAIN DigitChars : DigitChars[i] = c) - 1

\* a > b for two magnitudes written without leading zeros
MagGreater(a, b) ==
    \/ Len(a) > Len(b)
    \/ /\ Len(a) = Len(b)
       /\ \E i \in DOMAIN a :
              /\ DigitValue(a[i]) > DigitValue(b[i])
              /\ \A j \in 1..(i - 1) : a[j] = b[j]

\* x > y for two integers
IntGreater(x, y) ==
    IF x.neg /\ y.neg THEN MagGreater(y.mag, x.mag)
    ELSE IF x.neg THEN FALSE
    ELSE IF y.neg THEN x.mag # <<"0">> \/ y.mag # <<"0">>
    ELSE MagGreater(x.mag, y.mag)

\* 2**(32 - 1) - 1
MaxInt32 == IntVal(FALSE, <<"2", "1", "4", "7", "4", "8", "3", "6", "4", "7">>)

\* (maxValidValue * -1) - 1
MinInt32 == IntVal(TRUE, <<"2", "1", "4", "7", "4", "8", "3", "6", "4", "8">>)

\* 2**(64) - 1
MaxUInt64 == IntVal(FALSE, <<"1", "8", "4", "4", "6", "7", "4", "4", "0", "7", "3", "7", "0", "9", "5", "5", "1", "6", "1", "5">>)

Zero == IntVal(FALSE, <<"0">>)

\* numVal is not None and (numVal > maxValidValue or numVal < minValidValue)
OutOfRange(numVal, minValidValue, maxValidValue) ==
    /\ numVal # None
    /\ (IntGreater(numVal, maxValidValue) \/ IntGreater(minValidValue, numVal))

RECURSIVE Split(_, _)
\* s.split(c)
Split(s, c) ==
    IF \E i \in DOMAIN s : s[i] = c
    THEN LET h == SplitHead(s, c) IN <<h>> \o Split(Drop(s, Len(h) + 1), c)
    ELSE <<s>>

RECURSIVE Join(_, _)
\* c.join(words)
Join(words, c) ==
    IF words = <<>> THEN <<>>
    ELSE IF Len(words) = 1 THEN words[1]
    ELSE words[1] \o <<c>> \o Join(Tail(words), c)

\* STRUCTURE_TYPES_NUMBER_WITH_UNDERSCORE_REGEX.sub(r'\g<num_after_underscore>', name):
\* '(?<=[A-Z])_(?P<num_after_underscore>[0-9])'
STRUCTURE_TYPES_NUMBER_WITH_UNDERSCORE_REGEX(name) ==
    SelectSeq([i \in DOMAIN name |->
                  IF /\ name[i] = "_" /\ i > 1 /\ i < Len(name)
                     /\ IsUpper(name[i - 1]) /\ IsDigit(name[i + 1])
                  THEN "" ELSE name[i]],
              LAMBDA c : c # "")

RECURSIVE StripPrefixWords(_, _, _)
\* removeStructEnumNameFromMember, the first loop: memberName without the
\* longest run of leading words of the group name it starts with
StripPrefixWords(words, memberName, newName) ==
    IF words = <<>> THEN newName
    ELSE IF StartsWith(memberName, Join(words, "_"))
    THEN Drop(newName, Len(Join(words, "_")))
    ELSE StripPrefixWords(SubSeq(words, 1, Len(words) - 1), memberName, newName)

\* newName[0:-n]
DropLast(s, n) == IF n = 0 THEN <<>> ELSE SubSeq(s, 1, Len(s) - n)

s_bits == <<"b", "i", "t", "s">>

s_bit == <<"b", "i", "t">>

s__khr == <<"_", "k", "h", "r">>

RECURSIVE StripPostfixWords(_, _, _, _)
\* removeStructEnumNameFromMember, the second loop, at pass i of n
StripPostfixWords(words_end0, newName, i, n) ==
    LET words_end == IF i + 1 <= Len(words_end0) /\ words_end0[i + 1] = s_bits
                     THEN [words_end0 EXCEPT ![i + 1] = s_bit] ELSE words_end0
        postfixToRemove == Join(words_end, "_")
    IN  IF i >= n THEN newName
        ELSE IF EndsWith(newName, postfixToRemove)
        THEN DropLast(newName, Len(postfixToRemove))
        ELSE IF EndsWith(newName, postfixToRemove \o s__khr)
        THEN DropLast(newName, Len(postfixToRemove) + 4)
        ELSE StripPostfixWords(Tail(words_end), newName, i + 1, n)

\* VOutputGenerator.removeStructEnumNameFromMember
removeStructEnumNameFromMember(structEnumName, memberName) ==
    With(Split(v_camel_to_snake_case(structEnumName), "_"), LAMBDA words :
    With(StripPrefixWords(words, memberName, memberName), LAMBDA n1 :
    With(IF n1 # <<>> /\ n1[1] = "_" THEN Tail(n1) ELSE n1, LAMBDA n2 :
    With({ i \in DOMAIN words : words[i] = s_bits }, LAMBDA bits :
    With(IF bits = {} THEN words
         ELSE [words EXCEPT ![CHOOSE i \in bits : \A j \in bits : i <= j] = s_bit], LAMBDA words_end :
    With(StripPostfixWords(words_end, n2, 0, Len(words)), LAMBDA n3 :
    With(IF n3 # <<>> /\ n3[Len(n3)] = "_" THEN SubSeq(n3, 1, Len(n3) - 1) ELSE n3, LAMBDA n4 :
    With(IF n4 # <<>> /\ IsDigit(n4[1]) THEN <<"_">> \o n4 ELSE n4, LAMBDA newName :
        IF newName # <<>> THEN newName ELSE memberName))))))))

RECURSIVE AppendAll(_, _)
AppendAll(list, items) ==
    IF items = <<>> THEN list ELSE AppendAll(Append(list, Head(items)), Tail(items))

\* what a builder of a group returns: the exception or (section, body), and
\* the tables it leaves
Built(e, T, section, body) == [err |-> e, T |-> T, section |-> section, body |-> body]

\* buildEnumVDecl_BitmaskOrDefine, the loop: the member strVal names, for
\* an alias (self.registry.tree.find("enums/enum[@name='...']"))
AliasTarget(d, strVal) ==
    LET hits == { i \in DOMAIN d.members : d.members[i].name = strVal }
    IN  IF hits = {} THEN <<>> ELSE <<d.members[CHOOSE i \in hits : \A j \in hits : i <= j]>>

RECURSIVE AliasChase(_, _)
\* buildEnumVDecl_BitmaskOrDefine, `while numVal is None`: the aliases are
\* followed until a member with a number is met; a name no member has is
\* reported as an error
AliasChase(d, strVal) ==
    LET target == AliasTarget(d, strVal)
    IN  IF target = <<>> THEN FALSE
        ELSE IF target[1].numVal # None THEN TRUE
        ELSE AliasChase(d, target[1].strVal)

RECURSIVE RemoveChars(_, _)
\* s.replace(c1, '').replace(c2, '')...
RemoveChars(s, cs) == IF cs = <<>> THEN s ELSE RemoveChars(RemoveChar(s, Head(cs)), Tail(cs))

\* buildEnumVDecl_BitmaskOrDefine, the loop: the declaration of a required
\* member that has, or is an alias of a member that has, a number
FlagDecl(m, flagTypeName, misracppstyle) ==
    LET strVal == m.strVal
        couldnt_convert_strVal == ~Contains(strVal, <<"U", "L", "L">>) /\ ~Contains(strVal, <<"U">>)
        v_type == IF Contains(strVal, <<"U", "L", "L">>) THEN s_u64
                  ELSE IF Contains(strVal, <<"U">>) THEN s_u32
                  ELSE strVal
        prefix == IF Contains(strVal, <<"~">>) THEN <<"~">> ELSE <<>>
        v_value0 == IF StartsWith(Lower(strVal), s_vk) THEN strVal
                    ELSE RemoveChars(strVal, <<"~", "U", "L", "F", "(", ")">>)
        v_name == removeVk(Lower(m.name))
        v_value == Lower(removeVk(v_value0))
    IN  IF misracppstyle
        THEN <<"s", "t", "a", "t", "i", "c", " ", "c", "o", "n", "s", "t", "e", "x", "p", "r", " ">> \o flagTypeName \o <<" ">> \o m.name \o <<" ", "{">> \o strVal
             \o <<"}", ";", "\n">>
        ELSE <<"p", "u", "b", " ", "c", "o", "n", "s", "t", " ">> \o v_name \o <<" ", "=", " ">> \o
             (IF couldnt_convert_strVal THEN Lower(prefix \o removeVk(v_type))
              ELSE IF StartsWith(Lower(v_value), s_vk) THEN v_value
              ELSE prefix \o removeVk(v_type) \o <<"(">> \o v_value \o <<")">>)
             \o <<"\n">>

\* OutputGenerator.enumToValue(elem, True, bitwidth, True): the pair
\* (numVal, strVal) of a member; the text of a number takes the suffix ULL
\* in a 64-bit group and U in any other
enumToValue(m, bitwidth) ==
    [m EXCEPT !.strVal = IF m.numVal = None THEN @
                         ELSE IF bitwidth = 64 THEN @ \o <<"U", "L", "L">>
                         ELSE @ \o <<"U">>]

RECURSIVE FlagLoop(_, _, _, _, _, _)
\* buildEnumVDecl_BitmaskOrDefine: `for elem in enums`; st is [err, body, aliasText]
FlagLoop(d, flagTypeName, bitwidth, misracppstyle, st, members) ==
    IF members = <<>> \/ st.err # "none" THEN st
    ELSE LET m == enumToValue(Head(members), bitwidth)
             found == m.numVal # None \/ misracppstyle \/ AliasChase(d, m.strVal)
             decl == FlagDecl(m, flagTypeName, misracppstyle)
             s1 == IF OutOfRange(m.numVal, Zero, MaxUInt64) THEN [st EXCEPT !.err = "exit"]
                   ELSE IF ~m.required THEN st
                   ELSE IF ~found THEN [st EXCEPT !.err = "UserWarning"]
                   ELSE IF m.numVal # None \/ ~misracppstyle
                   THEN [st EXCEPT !.body = @ \o decl]
                   ELSE [st EXCEPT !.aliasText = @ \o decl]
         IN  CHOOSE R \in { FlagLoop(d, flagTypeName, bitwidth, misracppstyle, s, Tail(members))
                            : s \in {s1} } : TRUE

\* VOutputGenerator.buildEnumVDecl_BitmaskOrDefine
buildEnumVDecl_BitmaskOrDefine(T, opts, d, bitwidth) ==
    LET flagTypeName == removeVk(d.name)
        T1 == SetAlias(T, flagTypeName, IF bitwidth = 64 THEN s_u64 ELSE s_u32)
        head == <<"/", "/", " ", "F", "l", "a", "g", " ", "b", "i", "t", "s", " ", "f", "o", "r", " ">> \o flagTypeName \o <<"\n">> \o <<"p", "u", "b", " ", "t", "y", "p", "e", " ">>
                \o flagTypeName \o <<" ", "=", " ">> \o (IF bitwidth = 64 THEN s_u64 ELSE s_u32) \o <<"\n">>
        st == FlagLoop(d, flagTypeName, bitwidth, opts[1].misracppstyle,
                       [err |-> "none", body |-> head, aliasText |-> <<>>], d.members)
    IN  IF st.err # "none" THEN Built(st.err, T1, "bitmask", <<>>)
        ELSE Built("none", T1, "bitmask", st.body \o st.aliasText)

\* the length of the run of digits s begins with
DigitRun(s) ==
    IF s = <<>> \/ ~IsDigit(s[1]) THEN 0
    ELSE CHOOSE k \in 1..Len(s) :
             /\ \A j \in 1..k : IsDigit(s[j])
             /\ (k = Len(s) \/ ~IsDigit(s[k + 1]))

RECURSIVE ExpandSub(_)
\* re.sub(r'([0-9]+|[a-z_])([A-Z0-9])', r'\1_\2', s)
ExpandSub(s) ==
    LET k == DigitRun(s)
    IN  IF s = <<>> THEN <<>>
        ELSE IF k >= 1 /\ k < Len(s) /\ IsUpper(s[k + 1])
        THEN Take(s, k) \o <<"_", s[k + 1]>> \o ExpandSub(Drop(s, k + 1))
        ELSE IF k >= 2
        THEN Take(s, k - 1) \o <<"_", s[k]>> \o ExpandSub(Drop(s, k))
        ELSE IF /\ k = 0 /\ (IsLower(s[1]) \/ s[1] = "_")
                /\ Len(s) >= 2 /\ (IsUpper(s[2]) \/ IsDigit(s[2]))
        THEN <<s[1], "_", s[2]>> \o ExpandSub(Drop(s, 2))
        ELSE <<s[1]>> \o ExpandSub(Tail(s))

\* expandSuffix: '_' and the match of re.search(r'[A-Z][A-Z]+$', groupName)
ExpandSuffix(groupName) ==
    LET n == Len(groupName)
        run == IF n = 0 \/ ~IsUpper(groupName[n]) THEN 0
               ELSE CHOOSE k \in 1..n :
                        /\ \A j \in (n - k + 1)..n : IsUpper(groupName[j])
                        /\ (k = n \/ ~IsUpper(groupName[n - k]))
    IN  IF run >= 2 THEN <<"_">> \o SubSeq(groupName, n - run + 1, n) ELSE <<>>

\* s.rsplit(sep, 1)[0]
RSplitHead(s, sep) ==
    LET at == { i \in 1..(Len(s) - Len(sep) + 1) : SubSeq(s, i, i + Len(sep) - 1) = sep }
    IN  IF at = {} THEN s ELSE Take(s, (CHOOSE i \in at : \A j \in at : i >= j) - 1)

\* expandPrefix
ExpandPrefix(groupName) ==
    LET expandName == Upper(ExpandSub(groupName))
    IN  IF ExpandSuffix(groupName) = <<>> THEN expandName
        ELSE RSplitHead(expandName, ExpandSuffix(groupName))

s_placeholder == <<"T", "h", "i", "s", "I", "s", "A", "p", "l", "a", "c", "e", "h", "o", "l", "d", "e", "r", "T", "O", "_", "R", "E", "P", "L", "A", "C", "E", "_", "L", "A", "T", "E", "R", "w", "i", "t", "h", "E", "n", "u", "m", "T", "y", "p", "e">>

s_int_open == <<"i", "n", "t", "(">>

s_0x == <<"0", "x">>

\* buildEnumVDecl_Enum: the name a member is declared by
EnumMemberName(groupName, name) ==
    removeStructEnumNameFromMember(groupName,
        Lower(removeVk(STRUCTURE_TYPES_NUMBER_WITH_UNDERSCORE_REGEX(name))))

\* buildEnumVDecl_Enum: the declaration of a member
EnumDeclLine(name, strVal) ==
    IF Take(strVal, 2) = s_0x
    THEN s_indent \o name \o <<" ", "=", " ">> \o s_int_open \o strVal \o <<")">>
    ELSE s_indent \o name \o <<" ", "=", " ">> \o strVal

\* buildEnumVDecl_Enum: one pass of `for elem in enums`; st is
\* [err, body, T, minValue]
EnumStep(groupName, isEnum, st, m) ==
    LET skipped == m.required /\ m.protect # <<>>
        tracked == isEnum /\ m.numVal # None /\ ~m.extends
    IN  IF skipped THEN st
        ELSE With(EnumMemberName(groupName, m.name), LAMBDA name :
            With([st EXCEPT
                    !.T = IF m.required /\ groupName = s_StructureType
                          THEN [@ EXCEPT !.STRUCTURE_TYPES = Append(@, name)] ELSE @,
                    !.body = IF m.required /\ m.numVal # None
                             THEN Append(@, EnumDeclLine(name, m.strVal)) ELSE @],
                 LAMBDA st1 :
                    IF OutOfRange(m.numVal, MinInt32, MaxInt32) THEN [st1 EXCEPT !.err = "exit"]
                    ELSE [st1 EXCEPT !.minValue = IF tracked /\ (@ = None \/ IntGreater(@, m.numVal))
                                                  THEN m.numVal ELSE @]))

RECURSIVE EnumLoop(_, _, _, _)
\* buildEnumVDecl_Enum: `for elem in enums`
EnumLoop(groupName, isEnum, st, members) ==
    IF members = <<>> \/ st.err # "none" THEN st
    ELSE CHOOSE R \in { EnumLoop(groupName, isEnum, s, Tail(members))
                        : s \in {EnumStep(groupName, isEnum, st, Head(members))} } : TRUE

\* buildEnumVDecl_Enum: a line of the body holds 'int(0x7FFFFFFF)' or
\* 'int(0xFFFFFFFF)'
HasMaxValue(body) ==
    \E i \in DOMAIN body :
        \/ Contains(body[i], <<"i", "n", "t", "(", "0", "x", "7", "F", "F", "F", "F", "F", "F", "F", ")">>)
        \/ Contains(body[i], <<"i", "n", "t", "(", "0", "x", "F", "F", "F", "F", "F", "F", "F", "F", ")">>)

\* VOutputGenerator.buildEnumVDecl_Enum (genEnumBeginEndRange is off and
\* codeGenerator is on in every set of options)
buildEnumVDecl_Enum(T, d, groupNameOrig) ==
    LET section == IF d.category = "bitmask" THEN "bitmask" ELSE "group"
        isEnum == ~Contains(ExpandPrefix(groupNameOrig), <<"F", "L", "A", "G", "_", "B", "I", "T", "S">>)
        groupName == removeVk(groupNameOrig)
        T1 == IF InList(groupNameOrig, T.STRUCTURE_TYPES) THEN T
              ELSE [T EXCEPT !.ENUM_TYPES = Append(@, groupNameOrig)]
        head == <<"p", "u", "b", " ", "e", "n", "u", "m", " ">> \o groupNameOrig \o <<" ">> \o s_placeholder \o <<"{">>
        sentinel == s_indent \o <<"m", "a", "x", "_", "e", "n", "u", "m">>
                    \o Lower(ExpandSuffix(groupNameOrig)) \o <<" ", "=", " ", "m", "a", "x", "_", "i", "n", "t">>
    IN  With(EnumLoop(groupName, isEnum,
                      [err |-> "none", body |-> <<head>>, T |-> T1, minValue |-> None],
                      d.members),
             LAMBDA st :
                IF st.err # "none" THEN Built(st.err, st.T, section, <<>>)
                ELSE With(Join(Append(IF HasMaxValue(st.body) THEN st.body ELSE Append(st.body, sentinel),
                                      <<"}">>), "\n"),
                          LAMBDA ret :
                             IF st.minValue # None /\ st.minValue.neg /\ st.minValue.mag # <<"0">>
                             THEN Built("none", st.T, section, Replace(ret, s_placeholder, <<>>))
                             ELSE Built("none", st.T, section,
                                        Replace(Replace(ret, s_placeholder, <<"a", "s", " ", "u", "3", "2", " ">>),
                                                s_int_open, <<"u", "3", "2", "(">>))))

\* VOutputGeneratorBK.buildEnumVDecl_Enum: one pass of `for elem in enums`,
\* protect_option being None; st is [err, body]
EnumStepBK(st, m) ==
    LET name == removeVkBK(Lower(m.name))
        skipped == m.required /\ m.protect # <<>>
        body1 == IF m.required /\ m.numVal # None
                 THEN Append(st.body, s_indent \o name \o <<" ", "=", " ">> \o s_int_open \o m.strVal \o <<")">>)
                 ELSE st.body
    IN  IF skipped THEN st
        ELSE IF OutOfRange(m.numVal, MinInt32, MaxInt32) THEN [st EXCEPT !.err = "exit", !.body = body1]
        ELSE [st EXCEPT !.body = body1]

RECURSIVE EnumLoopBK(_, _)
\* VOutputGeneratorBK.buildEnumVDecl_Enum: `for elem in enums`
EnumLoopBK(st, members) ==
    IF members = <<>> \/ st.err # "none" THEN st
    ELSE CHOOSE R \in { EnumLoopBK(s, Tail(members)) : s \in {EnumStepBK(st, Head(members))} } : TRUE

\* VOutputGeneratorBK.buildEnumVDecl_Enum, protect_option being None
\* (genEnumBeginEndRange is off and codeGenerator is on in every set of options)
buildEnumVDecl_EnumBK(d, groupNameOrig) ==
    LET section == IF d.category = "bitmask" THEN "bitmask" ELSE "group"
        groupName == IF StartsWith(Lower(groupNameOrig), s_vk)
                        /\ Lower(Drop(groupNameOrig, 2)) \notin {s_true, s_false}
                     THEN Drop(groupNameOrig, 2) ELSE groupNameOrig
        st == EnumLoopBK([err |-> "none", body |-> <<<<"p", "u", "b", " ", "e", "n", "u", "m", " ">> \o groupName \o <<" ", "{">>>>],
                         d.members)
        sentinel == s_indent \o removeVkBK(Lower(ExpandPrefix(groupNameOrig))) \o <<"_", "m", "a", "x", "_", "e", "n", "u", "m">>
                    \o Lower(ExpandSuffix(groupNameOrig)) \o <<" ", "=", " ", "i", "n", "t", "(", "0", "x", "7", "F", "F", "F", "F", "F", "F", "F", ")">>
    IN  IF st.err # "none" THEN Built(st.err, SeedTables, section, <<>>)
        ELSE Built("none", SeedTables, section, Join(Append(Append(st.body, sentinel), <<"}">>), "\n"))

\* VOutputGenerator.buildEnumVDecl
buildEnumVDecl(T, opts, d, groupName) ==
    LET bitwidth == IF d.bitwidth # 0 THEN d.bitwidth ELSE 32
        usebitmask == d.category = "bitmask" /\ (bitwidth > 32 \/ opts[1].misracppstyle)
    IN  IF opts = <<>> THEN Built("MissingGeneratorOptionsError", T, "None", <<>>)
        ELSE IF ~opts[1].conventions
        THEN Built("MissingGeneratorOptionsConventionsError", T, "None", <<>>)
        ELSE IF usebitmask
        THEN IF bitwidth > 64 THEN Built("exit", T, "None", <<>>)
             ELSE buildEnumVDecl_BitmaskOrDefine(T, opts, d, bitwidth)
        ELSE IF bitwidth > 32 THEN Built("exit", T, "None", <<>>)
        ELSE buildEnumVDecl_Enum(T, d, groupName)

\* VOutputGenerator.genGroup
genGroup(G, opts, d) ==
    LET section == IF d.category = "bitmask" THEN "bitmask" ELSE "group"
        groupName == removeVk(d.name)
        r == v_translate_c_name_to_basetype(G.T, groupName, d.alias)
        T1 == IF InList(r.alias, r.T.ENUM_TYPES)
              THEN [r.T EXCEPT !.ENUM_TYPES = Append(@, r.name)] ELSE r.T
    IN  IF d.alias # <<>>
        THEN appendSection([G EXCEPT !.T = T1], section, Text("type", r.name, r.alias))
        ELSE CHOOSE R \in
            { IF b.err # "none" THEN Raise([G EXCEPT !.T = b.T], b.err)
              ELSE appendSection([G EXCEPT !.T = b.T], b.section,
                                 Text("group", groupName, <<"\n">> \o b.body))
              : b \in {buildEnumVDecl(G.T, opts, d, groupName)} } : TRUE

\* VOutputGenerator.genEnum with buildConstantVDecl
genEnum(G, d) ==
    appendSection(G, "enum", Text("const", removeVk(Lower(d.name)), <<>>))

\* VOutputGeneratorBK.genEnum
genEnumBK(G, d) ==
    appendSectionBK(G, "enum", Text("const", removeVkBK(Lower(d.name)), <<>>))

RECURSIVE RStripCommaSpace(_)
\* s.rstrip(', ')
RStripCommaSpace(s) ==
    IF s # <<>> /\ s[Len(s)] \in {",", " "} THEN RStripCommaSpace(SubSeq(s, 1, Len(s) - 1)) ELSE s

RECURSIVE JoinStr(_, _)
\* sep.join(words)
JoinStr(words, sep) ==
    IF words = <<>> THEN <<>>
    ELSE IF Len(words) = 1 THEN words[1]
    ELSE words[1] \o sep \o JoinStr(Tail(words), sep)

\* makeVDecls, `if elem.tag == 'type'`: the V type of the return type
ReturnVType(text_plus_tail) ==
    IF InTypeMap(text_plus_tail) THEN TYPE_MAP(text_plus_tail)
    ELSE LET v_type == removeVk(text_plus_tail)
             ptr_count == Cardinality({ i \in DOMAIN v_type : v_type[i] = "*" })
             v_type_without_pointer == RemoveChar(v_type, "*")
         IN  IF ptr_count = 0 THEN v_type
             ELSE Repeat("&", ptr_count)
                  \o (IF InTypeMap(v_type_without_pointer) THEN TYPE_MAP(v_type_without_pointer)
                      ELSE v_type_without_pointer)

RECURSIVE ParamDecls(_, _, _, _, _)
\* makeVParamDecl(v_name, p, self.genOpts.alignFuncParam, ...) for p in params
ParamDecls(T, opts, v_name, params, F) ==
    IF params = <<>> THEN <<>>
    ELSE <<makeVParamDecl(T, opts, v_name, Head(params), opts[1].alignFuncParam, F)>>
         \o ParamDecls(T, opts, v_name, Tail(params), F)

\* the error of the first call that raises, "none" if none does
FirstError(results) ==
    IF \A i \in DOMAIN results : results[i].err = "none" THEN "none"
    ELSE results[CHOOSE i \in DOMAIN results :
                     /\ results[i].err # "none"
                     /\ \A j \in 1..(i - 1) : results[j].err = "none"].err

\* makeVDecls for n > 0 parameters, given what makeVParamDecl returns for
\* the parameters of a declaration (decl) and of a call (call)
CommandText(opts, v_name_original, v_name, v_type0, decl, call) ==
    LET c_func_def_params ==
            RStripCommaSpace(<<"(", "\n">> \o JoinStr([i \in DOMAIN decl |-> decl[i].paramdecl \o <<",", " ">>], <<>>))
            \o <<")">>
        v_pub_type_pfn_param_names ==
            RStripCommaSpace(<<"(">> \o JoinStr([i \in DOMAIN decl |-> LStripSpace(decl[i].paramdecl) \o <<",", " ">>], <<>>))
            \o <<")">>
        v_pub_type ==
            <<"p", "u", "b", " ", "t", "y", "p", "e", " ", "P", "F", "N", "_">> \o v_name_original \o <<" ", "=", " ", "f", "n">> \o v_pub_type_pfn_param_names
            \o (IF v_type0 = s_PFN_vkVoidFunction THEN <<>> ELSE <<" ">> \o v_type0) \o s_nl
        v_function_param_names_and_types ==
            <<"(", "\n">> \o JoinStr([i \in DOMAIN decl |-> LStripSpace(decl[i].paramdecl)], <<",", "\n">>) \o <<")">>
        v_function_param_names ==
            <<"(", "\n">> \o JoinStr([i \in DOMAIN call |-> LStripSpace(call[i].paramdecl)], <<",", "\n">>) \o <<")">>
        v_type == IF v_type0 = s_PFN_vkVoidFunction THEN s_voidptr ELSE v_type0
        v_wrapper ==
            v_pub_type \o <<"@", "[", "i", "n", "l", "i", "n", "e", "]", "\n", "p", "u", "b", " ", "f", "n", " ">> \o removeVk(v_name)
            \o v_function_param_names_and_types \o v_type \o <<" ", "{", "\n">>
            \o s_indent \o (IF Strip(v_type) = <<>> THEN <<>> ELSE <<"r", "e", "t", "u", "r", "n", " ">>)
            \o s_C_ \o v_name_original \o Replace(v_function_param_names, s_nl, <<" ">>)
            \o <<"\n", "}", "\n">>
    IN  <<"@", "[", "k", "e", "e", "p", "_", "a", "r", "g", "s", "_", "a", "l", "i", "v", "e", "]", "\n", "f", "n", " ", "C", ".">> \o v_name_original \o c_func_def_params \o <<" ">> \o v_type
        \o s_nl \o v_wrapper

\* VOutputGenerator.makeVDecls of <command><proto><type>ctype</type>tail
\* <name>name</name></proto> and the <param> elements members: [err, decls].
\* Without a parameter v_function_param_names_and_types is read unassigned.
makeVDecls(T, opts, d) ==
    IF opts = <<>> THEN [err |-> "MissingGeneratorOptionsError", decls |-> <<>>]
    ELSE IF d.members = <<>> THEN [err |-> "UnboundLocalError", decls |-> <<>>]
    ELSE With(ReturnVType(d.ctype \o Strip(d.tail)), LAMBDA v_type :
         With(v_camel_to_snake_case(d.name), LAMBDA v_name :
         \* the declaration list, then the call list (do_c_func_params)
         With([c \in BOOLEAN |-> ParamDecls(T, opts, v_name, d.members, ParamFlags(FALSE, c, FALSE, FALSE))],
              LAMBDA lists :
         With(FirstError(lists[FALSE] \o lists[TRUE]), LAMBDA e :
             IF e # "none" THEN [err |-> e, decls |-> <<>>]
             ELSE [err |-> "none",
                   decls |-> << Text("command", removeVk(v_name),
                                     CommandText(opts, d.name, v_name, v_type, lists[FALSE], lists[TRUE])),
                                Text("commandPointer", d.name,
                                     IF opts[1].alignFuncParam = 0 THEN JoinSplit(v_type) ELSE v_type) >>]))))

\* VOutputGenerator.genCmd: prefix + decls[0] + '\n' goes to the section
\* command, decls[1] to the section commandPointer
genCmd(G, opts, d) ==
    IF opts = <<>> THEN Raise(G, "MissingGeneratorOptionsError")
    ELSE CHOOSE R \in
        { IF r.err # "none" THEN Raise(G, r.err)
          ELSE LET G1 == appendSection(G, "command", [r.decls[1] EXCEPT !.t = @ \o s_nl])
               IN  IF opts[1].genFuncPointers THEN appendSection(G1, "commandPointer", r.decls[2])
                   ELSE G1
          : r \in {makeVDecls(G.T, opts, d)} } : TRUE

\* VOutputGeneratorBK.makeVDecls: the wrapper, which names the C function,
\* and the function pointer declaration
makeVDeclsBK(d) ==
    << Text("command", removeVk(v_camel_to_snake_case(d.name)), d.name),
       Text("commandPointer", d.name, <<>>) >>

\* VOutputGeneratorBK.genCmd
genCmdBK(G, opts, d) ==
    IF opts = <<>> THEN Raise(G, "MissingGeneratorOptionsError")
    ELSE LET decls == makeVDeclsBK(d)
             G1 == appendSectionBK(G, "command", decls[1])
         IN  IF opts[1].genFuncPointers THEN appendSectionBK(G1, "commandPointer", decls[2])
             ELSE G1

(***************************************************************************)
(* The run: one generator instance driven by the registry driver.          *)
(***************************************************************************)
VARIABLES
    registry,            \* which registry the driver walks: "order" or "tables"
    gen,                 \* the class of the instance: "V" (VOutputGenerator) or "BK"
    genOpts,             \* self.genOpts: 0 for None, else an index into Options
    fileOpen,            \* self.outFile is open
    emit,                \* self.emit
    featureName,         \* self.featureName, <<>> for None
    featureExtraProtect, \* self.featureExtraProtect, <<>> for None
    sections,            \* self.sections
    feature_not_empty,   \* self.feature_not_empty
    outFile,             \* the lines written to the output files of the run
    sideFile,            \* the entries of the replacement side file last written
    tables,              \* the class-level tables of the class of the instance
    err,                 \* "none", or the exception or exit that ended the run
    nFile,               \* history: the files begun
    declared,            \* history: the declarations generated into the current file
    hist,                \* history: one record per feature begun
    last,                \* history: the callback executed last
    second               \* a second instance of the class: whether it was
                         \* constructed and the tables it found

genVars == <<registry, gen, genOpts, fileOpen, emit, featureName, featureExtraProtect,
             sections, feature_not_empty, outFile, sideFile, tables, err,
             nFile, declared, hist, last, second>>

vars == <<fnGen, fnArg, fnRes, fnRes2, fnStage,
          registry, gen, genOpts, fileOpen, emit, featureName, featureExtraProtect,
          sections, feature_not_empty, outFile, sideFile, tables, err,
          nFile, declared, hist, last, second>>

\* the most files, features (over the run) and declarations (per feature)
\* the driver generates; a run over the "order" registry generates one file
MaxFiles == 2

FilesOf(reg) == IF reg = "order" THEN MaxFiles - 1 ELSE MaxFiles

MaxFeatures == 2

MaxDecls == 2

\* the class-level tables of VOutputGeneratorBK that its genEnum and genCmd
\* reach, as the class statement leaves them
SeedTablesBK == [REPLACEMENT_EXACT_TEXT_ARR |-> <<>>]

SeedTablesOf(g) == IF g = "V" THEN SeedTables ELSE SeedTablesBK

\* self.genOpts as a value: <<>> for None
Opts == IF genOpts = 0 THEN <<>> ELSE <<Options[genOpts]>>

\* the state the callbacks work on
CurrentG ==
    [ sections |-> sections, feature_not_empty |-> feature_not_empty, T |-> tables,
      err |-> "none", f |-> Len(hist), n |-> hist[Len(hist)].appended ]

\* a line of output: kind k ("nl", "text", "open", "close" or "sec"), the
\* guard, section or fixed text g it stands for, the names a it carries and, for a section, the
\* fragments it joins; file and f tell the file and the feature (0: none)
\* it was written for
Line(k, g, a, frags) == [k |-> k, g |-> g, a |-> a, frags |-> frags, file |-> 0, f |-> 0]

NL == Line("nl", "", <<>>, <<>>)

Tagged(lines, file, f) == [i \in DOMAIN lines |-> [lines[i] EXCEPT !.file = file, !.f = f]]

\* a faulty reset: the sections keep what they hold
KeepSections(secs) == secs

\* __init__ and beginFeature: self.sections = {section: [] for section in self.ALL_SECTIONS}
ResetSections(secs) == EmptySections

\* the state after construction of an instance of class g
InitGen(g, reg) ==
    /\ registry = reg
    /\ gen = g
    /\ genOpts = 0
    /\ fileOpen = FALSE
    /\ emit = FALSE
    /\ featureName = <<>>
    /\ featureExtraProtect = <<>>
    /\ sections = ResetSections(EmptySections)
    /\ feature_not_empty = FALSE
    /\ outFile = <<>>
    /\ sideFile = <<>>
    /\ tables = SeedTablesOf(g)
    /\ err = "none"
    /\ nFile = 0
    /\ declared = {}
    /\ hist = <<>>
    /\ last = "__init__"
    /\ second = [made |-> FALSE, found |-> SeedTablesOf(g)]

\* the function harness at rest
FnIdle ==
    /\ fnGen = "V"
    /\ fnArg = <<>>
    /\ fnRes = <<>>
    /\ fnRes2 = <<>>
    /\ fnStage = "idle"

\* beginFile of both classes: the header lines
beginFileLines(o) ==
    (IF o.protectFile /\ o.filename
     THEN (IF gen = "V" THEN <<Line("text", "license", <<>>, <<>>)>> ELSE <<>>)
          \o <<Line("text", "module", <<>>, <<>>), NL>>
     ELSE <<>>)

\* VOutputGenerator.beginFile and VOutputGeneratorBK.beginFile, called by
\* the driver with one of the options objects or None
beginFile(o) ==
    /\ err = "none"
    /\ ~fileOpen
    /\ nFile < FilesOf(registry)
    /\ genOpts' = o
    /\ last' = "beginFile"
    /\ IF o = 0
       THEN /\ err' = "MissingGeneratorOptionsError"
            /\ UNCHANGED <<fileOpen, outFile, nFile, declared>>
       ELSE /\ err' = "none"
            /\ fileOpen' = TRUE
            /\ nFile' = nFile + 1
            /\ declared' = {}
            /\ outFile' = outFile \o Tagged(beginFileLines(Options[o]), nFile + 1, 0)
    /\ UNCHANGED <<registry, gen, emit, featureName, featureExtraProtect, sections,
                   feature_not_empty, sideFile, tables, hist, second>>
    /\ UNCHANGED fnVars

s_bs == <<"\\">>

\* endFile: self.escStr(itm).replace('\\', '\\\\').replace('\n', '\\n'), the
\* key written to the replacement side file
key_string(itm) ==
    [itm EXCEPT !.n = Replace(Replace(escStrSeq(@), s_bs, s_bs_bs), s_nl, s_bs_n),
                !.t = Replace(Replace(escStrSeq(@), s_bs, s_bs_bs), s_nl, s_bs_n)]

\* VOutputGenerator.endFile and VOutputGeneratorBK.endFile
endFile ==
    /\ err = "none"
    /\ fileOpen
    /\ featureName = <<>>
    /\ last' = "endFile"
    /\ IF genOpts = 0
       THEN /\ err' = "MissingGeneratorOptionsError"
            /\ UNCHANGED <<fileOpen, sideFile>>
       ELSE /\ err' = "none"
            /\ fileOpen' = FALSE
            /\ sideFile' = [i \in DOMAIN tables.REPLACEMENT_EXACT_TEXT_ARR |->
                               key_string(tables.REPLACEMENT_EXACT_TEXT_ARR[i])]
    /\ UNCHANGED <<registry, gen, genOpts, emit, featureName, featureExtraProtect, sections,
                   feature_not_empty, outFile, tables, nFile, declared, hist, second>>
    /\ UNCHANGED fnVars

\* a faulty test: no feature counts as a core version
is_core_never(name) == FALSE

\* conventions.api_prefix + 'VERSION_'
is_core(name) == name # <<>> /\ StartsWith(name, s_VK_ \o s_VERSION_)

\* the record of a feature in the history
HistEntry(name, e) ==
    [ name |-> name, core |-> is_core(name), file |-> nFile, emit |-> e, ended |-> FALSE,
      approved |-> FALSE, written |-> FALSE, generated |-> 0, lastId |-> 0, appended |-> 0 ]

\* VOutputGenerator.beginFeature and VOutputGeneratorBK.beginFeature
beginFeature(interface, e) ==
    /\ err = "none"
    /\ fileOpen
    /\ featureName = <<>>
    /\ Len(hist) < MaxFeatures
    /\ emit' = e
    /\ featureName' = interface.name
    /\ featureExtraProtect' = interface.protect
    /\ sections' = ResetSections(sections)
    /\ feature_not_empty' = FALSE
    /\ hist' = Append(hist, HistEntry(interface.name, e))
    /\ last' = "beginFeature"
    /\ UNCHANGED <<registry, gen, genOpts, fileOpen, outFile, sideFile, tables, err,
                   nFile, declared, second>>
    /\ UNCHANGED fnVars

\* the declarations a feature requires: every declaration in the ordering
\* runs; in the table runs the core version requires the types and groups
\* and the first aliases, the extension the aliases added later
RequiredBy(reg, name) ==
    IF reg = "order" THEN {RegistryOrder[i].id : i \in DOMAIN RegistryOrder}
    ELSE IF name = n_VK_VERSION_1_0 THEN {1, 2, 3, 4, 6, 9, 10, 12, 13}
    ELSE {5, 7, 8, 11}

\* the driver generates a declaration inside a feature that requires it,
\* once per file, after the declarations it refers to, and walks the
\* registry in its order
CanGenerate(d) ==
    /\ err = "none"
    /\ fileOpen
    /\ featureName # <<>>
    /\ d.id \in RequiredBy(registry, featureName)
    /\ d.id \notin declared
    /\ d.after \subseteq declared
    /\ d.id > hist[Len(hist)].lastId
    /\ hist[Len(hist)].generated < MaxDecls

\* the state a generating callback leaves
Generated(G, d, callback) ==
    /\ sections' = G.sections
    /\ feature_not_empty' = G.feature_not_empty
    /\ tables' = G.T
    /\ err' = G.err
    /\ declared' = declared \cup {d.id}
    /\ hist' = [hist EXCEPT ![Len(hist)].generated = @ + 1,
                            ![Len(hist)].lastId = d.id,
                            ![Len(hist)].appended = G.n]
    /\ last' = callback
    /\ UNCHANGED <<registry, gen, genOpts, fileOpen, emit, featureName, featureExtraProtect,
                   outFile, sideFile, nFile, second>>
    /\ UNCHANGED fnVars

\* the driver calls genType for a <type>
GenType ==
    \E i \in DOMAIN RegistryOf(registry) :
        LET d == RegistryOf(registry)[i]
        IN  /\ gen = "V"
            /\ d.kind = "type"
            /\ CanGenerate(d)
            /\ \E G \in {genType(CurrentG, Opts, d)} : Generated(G, d, "genType")

\* the driver calls genGroup for an <enums> group or an alias of one
GenGroup ==
    \E i \in DOMAIN RegistryOf(registry) :
        LET d == RegistryOf(registry)[i]
        IN  /\ gen = "V"
            /\ d.kind = "group"
            /\ CanGenerate(d)
            /\ \E G \in {genGroup(CurrentG, Opts, d)} : Generated(G, d, "genGroup")

\* the driver calls genEnum for an API constant
GenEnum ==
    \E i \in DOMAIN RegistryOf(registry) :
        LET d == RegistryOf(registry)[i]
        IN  /\ d.kind = "enum"
            /\ CanGenerate(d)
            /\ \E G \in {IF gen = "V" THEN genEnum(CurrentG, d) ELSE genEnumBK(CurrentG, d)} :
                   Generated(G, d, "genEnum")

\* the driver calls genCmd for a <command>
GenCmd ==
    \E i \in DOMAIN RegistryOf(registry) :
        LET d == RegistryOf(registry)[i]
        IN  /\ d.kind = "command"
            /\ CanGenerate(d)
            /\ \E G \in {IF gen = "V" THEN genCmd(CurrentG, Opts, d)
                          ELSE genCmdBK(CurrentG, Opts, d)} :
                   Generated(G, d, "genCmd")

s_cmt_open == <<" ", "/", "*", " ">>

s_cmt_open_not == <<" ", "/", "*", " ", "!">>

s_cmt_close == <<" ", "*", "/">>

s_endif == <<"#", "e", "n", "d", "i", "f">>

\* VOutputGenerator._endProtectComment: the exception raised or the comment
_endProtectComment(o, protect_str, protect_directive) ==
    IF protect_directive = <<>> \/ protect_str = <<>>
    THEN [err |-> "RuntimeError", s |-> <<>>]
    ELSE IF ~o.protectProtoComment THEN [err |-> "none", s |-> <<>>]
    ELSE IF Contains(protect_directive, s_ifdef)
    THEN [err |-> "none", s |-> s_cmt_open \o protect_str \o s_cmt_close]
    ELSE [err |-> "none", s |-> s_cmt_open_not \o protect_str \o s_cmt_close]

Open(g, directive, sym) == Line("open", g, directive \o <<" ">> \o sym, <<>>)

Close(g, comment) == Line("close", g, s_endif \o comment, <<>>)

\* write('\n'.join(contents)) for a section that holds fragments
SectionLine(secs, s) == IF secs[s] # <<>> THEN <<Line("sec", s, <<>>, secs[s])>> ELSE <<>>

\* the loop over TYPE_SECTIONS and the commandPointer block of endFeature
TypeLines(o, secs) ==
    Concat([i \in DOMAIN TYPE_SECTIONS |-> SectionLine(secs, TYPE_SECTIONS[i])])
    \o (IF o.genFuncPointers /\ secs["commandPointer"] # <<>>
        THEN SectionLine(secs, "commandPointer") \o <<NL>> ELSE <<>>)

\* whether endFeature puts the extension prototype guard around the commands
GuardsExtension(o, core) == o.protectExtensionProto # <<>> /\ ~core

\* the command block of VOutputGenerator.endFeature: the lines written and
\* the exception that ended it
CommandLines(o, secs, core) ==
    LET ext == GuardsExtension(o, core)
        opened ==
            (IF o.protectProto # <<>>
             THEN <<Open("proto", o.protectProto, o.protectProtoStr)>> ELSE <<>>)
            \o (IF ext THEN <<Open("extproto", o.protectExtensionProto, o.protectExtensionProtoStr)>>
                ELSE <<>>)
            \o SectionLine(secs, "command")
        extClose == _endProtectComment(o, o.protectExtensionProtoStr, o.protectExtensionProto)
        protoClose == _endProtectComment(o, o.protectProtoStr, o.protectProto)
        closed1 == opened \o (IF ext THEN <<Close("extproto", extClose.s)>> ELSE <<>>)
    IN  IF secs["command"] = <<>> THEN [lines |-> <<>>, err |-> "none"]
        ELSE IF ext /\ extClose.err # "none" THEN [lines |-> opened, err |-> extClose.err]
        ELSE IF o.protectProto = <<>> THEN [lines |-> closed1 \o <<NL>>, err |-> "none"]
        ELSE IF protoClose.err # "none" THEN [lines |-> closed1, err |-> protoClose.err]
        ELSE [lines |-> closed1 \o <<Close("proto", protoClose.s)>>, err |-> "none"]

\* the body of VOutputGenerator.endFeature for an emitted, non-empty feature
\* that the naming policy approves: the lines written, the exception that
\* ended it and the value left in self.featureName
endFeatureLines(o, secs, name, extra) ==
    LET core == is_core(name)
        name1 == Lower(removeVk(name))
        name2 == removeVk(name1)
        head == <<NL>>
                \o (IF o.protectFeature THEN <<Open("feature", d_ifndef, name1)>> ELSE <<>>)
                \o (IF extra # <<>> THEN <<Open("extra", d_ifdef, extra)>> ELSE <<>>)
                \o <<NL>>
        cmds == CommandLines(o, secs, core)
        extraClose == _endProtectComment(o, extra, d_ifdef)
        featureClose == _endProtectComment(o, name2, d_ifdef)
        tail == (IF extra # <<>> THEN <<Close("extra", extraClose.s)>> ELSE <<>>)
                \o (IF o.protectFeature THEN <<Close("feature", featureClose.s)>> ELSE <<>>)
    IN  IF cmds.err # "none"
        THEN [lines |-> head \o TypeLines(o, secs) \o cmds.lines, err |-> cmds.err, name |-> name2]
        ELSE [lines |-> head \o TypeLines(o, secs) \o cmds.lines \o tail, err |-> "none", name |-> name2]

\* the body of VOutputGeneratorBK.endFeature for an emitted, non-empty
\* feature that the naming policy approves
endFeatureLinesBK(o, secs, name, extra) ==
    LET core == is_core(name)
        name1 == removeVkBK(name)
        ext == GuardsExtension(o, core)
        cmds == IF secs["command"] = <<>> THEN <<>>
                ELSE (IF o.protectProto # <<>>
                      THEN <<Open("proto", o.protectProto, o.protectProtoStr)>> ELSE <<>>)
                     \o (IF ext THEN <<Open("extproto", o.protectExtensionProto,
                                            o.protectExtensionProtoStr)>> ELSE <<>>)
                     \o SectionLine(secs, "command")
                     \o (IF o.protectProto # <<>> THEN <<>> ELSE <<NL>>)
    IN  [ lines |-> <<NL, NL, Line("text", "guard comment", name, <<>>),
                      Line("text", "const", Lower(name1), <<>>)>>
                    \o TypeLines(o, secs) \o cmds,
          err |-> "none", name |-> name1 ]

\* VOutputGenerator.endFeature and VOutputGeneratorBK.endFeature; approve
\* is the answer of the naming policy (conventions.writeFeature)
endFeature(approve) ==
    LET o == Options[genOpts]
        writes == emit /\ feature_not_empty
        r == IF gen = "V" THEN endFeatureLines(o, sections, featureName, featureExtraProtect)
             ELSE endFeatureLinesBK(o, sections, featureName, featureExtraProtect)
        e == IF ~writes THEN "none"
             ELSE IF genOpts = 0 THEN "MissingGeneratorOptionsError"
             ELSE IF ~o.conventions THEN "MissingGeneratorOptionsConventionsError"
             ELSE IF approve THEN r.err ELSE "none"
        written == writes /\ genOpts # 0 /\ o.conventions /\ approve
    IN  /\ err = "none"
        /\ fileOpen
        /\ featureName # <<>>
        /\ err' = e
        /\ outFile' = IF written THEN outFile \o Tagged(r.lines, nFile, Len(hist)) ELSE outFile
        /\ IF e = "none"
           THEN /\ emit' = FALSE
                /\ featureName' = <<>>
                /\ featureExtraProtect' = <<>>
           ELSE /\ featureName' = (IF written THEN r.name ELSE featureName)
                /\ UNCHANGED <<emit, featureExtraProtect>>
        /\ hist' = [hist EXCEPT ![Len(hist)].ended = TRUE,
                                ![Len(hist)].approved = written,
                                ![Len(hist)].written = written /\ e = "none"]
        /\ last' = "endFeature"
        /\ UNCHANGED <<registry, gen, genOpts, fileOpen, sections, feature_not_empty, sideFile,
                       tables, nFile, declared, second>>
        /\ UNCHANGED fnVars

\* a second instance of the class is constructed, while no file is being
\* generated: __init__ gives it its own sections and flag, and the tables it
\* finds are the class attributes
NewInstance ==
    /\ err = "none"
    /\ ~fileOpen
    /\ ~second.made
    /\ second' = [made |-> TRUE, found |-> tables]
    /\ last' = "__init__"
    /\ UNCHANGED <<registry, gen, genOpts, fileOpen, emit, featureName, featureExtraProtect,
                   sections, feature_not_empty, outFile, sideFile, tables, err,
                   nFile, declared, hist>>
    /\ UNCHANGED fnVars

(***************************************************************************)
(* The runs                                                                *)
(***************************************************************************)
\* the options objects of the runs of a registry
OptionsOf(reg) == IF reg = "order" THEN 0..Len(Options) ELSE {0, 1}

BeginFile == \E o \in OptionsOf(registry) : beginFile(o)

EndFile == endFile

\* the features of the current file that were begun
FeaturesBegun == {i \in DOMAIN Features : \E f \in DOMAIN hist :
                     hist[f].file = nFile /\ hist[f].name = Features[i].name}

\* the driver walks the features of the registry in their order
BeginFeature ==
    \E i \in DOMAIN Features, e \in BOOLEAN :
        /\ \A j \in FeaturesBegun : j < i
        /\ beginFeature(Features[i], e)

EndFeature == \E approve \in BOOLEAN : endFeature(approve)

Init == FnIdle /\ \E g \in {"V", "BK"} : InitGen(g, "order")

Next == BeginFile \/ BeginFeature \/ GenType \/ GenEnum \/ GenCmd \/ EndFeature \/ EndFile

Spec == Init /\ [][Next]_vars

(***************************************************************************)
(* What the output files hold, feature by feature                          *)
(***************************************************************************)
\* the lines endFeature wrote for feature f, in the order of writing
LinesOf(f) == SelectSeq(outFile, LAMBDA l : l.f = f)

\* the fragments written for feature f, in the order of writing
WrittenFragments(f) ==
    LET secLines == SelectSeq(LinesOf(f), LAMBDA l : l.k = "sec")
    IN  Concat([i \in DOMAIN secLines |-> secLines[i].frags])

\* the order of the sections in the output that the specification states
SectionOrder ==
    <<"include", "define", "basetype", "handle", "enum", "group", "bitmask",
      "funcpointer", "struct", "commandPointer", "command">>

SectionRank(s) == CHOOSE i \in DOMAIN SectionOrder : SectionOrder[i] = s

\* C1: in the primary generator, when endFeature writes a feature, every
\* fragment accumulated for it is written, the fragments of one section in
\* one block, the blocks in the order include, define, basetype, handle,
\* enum, group, bitmask, funcpointer, struct, commandPointer, command, and
\* the fragments of a block in the order in which they were appended.
C1_SectionOrder ==
    gen = "V" =>
        \A f \in DOMAIN hist :
            hist[f].approved =>
                LET w == WrittenFragments(f)
                    ls == LinesOf(f)
                IN  /\ Len(w) = hist[f].appended
                    /\ {w[i].seq : i \in DOMAIN w} = 1..hist[f].appended
                    /\ \A i, j \in DOMAIN w :
                           i < j => \/ SectionRank(w[i].sec) < SectionRank(w[j].sec)
                                    \/ w[i].sec = w[j].sec /\ w[i].seq < w[j].seq
                    /\ \A i \in DOMAIN ls :
                           ls[i].k = "sec" =>
                               /\ \A j \in DOMAIN ls[i].frags : ls[i].frags[j].sec = ls[i].g
                               /\ \A k \in DOMAIN ls : ls[k].k = "sec" /\ ls[k].g = ls[i].g => k = i

\* a feature of the primary generator was written whose fragments were
\* appended in another order than the sections are written in, and a
\* feature was written that holds two fragments in one section
C1_Witness ==
    /\ gen = "V"
    /\ \E f \in DOMAIN hist :
           /\ hist[f].written
           /\ LET w == WrittenFragments(f)
              IN  \E i, j \in DOMAIN w : i < j /\ w[i].seq > w[j].seq
    /\ \E f \in DOMAIN hist :
           /\ hist[f].written
           /\ LET w == WrittenFragments(f)
              IN  \E i, j \in DOMAIN w : i < j /\ w[i].sec = w[j].sec

\* C2: beginFeature empties every section and clears the flag; a fragment
\* is written at most once, and only by the endFeature of the feature it was
\* appended in; the fragments of a feature that ended without being written
\* are never written.
C2_FragmentsOfOwnFeature ==
    /\ last = "beginFeature" =>
           /\ \A s \in DOMAIN sections : sections[s] = <<>>
           /\ ~feature_not_empty
    /\ \A i \in DOMAIN outFile :
           \A j \in DOMAIN outFile[i].frags :
               LET fr == outFile[i].frags[j]
               IN  /\ fr.f = outFile[i].f
                   /\ hist[fr.f].approved
                   /\ \A i2 \in DOMAIN outFile :
                          \A j2 \in DOMAIN outFile[i2].frags :
                              (outFile[i2].frags[j2].f = fr.f /\ outFile[i2].frags[j2].seq = fr.seq)
                                  => (i2 = i /\ j2 = j)
    /\ \A f \in DOMAIN hist :
           (hist[f].ended /\ ~hist[f].approved) =>
               \A i \in DOMAIN outFile :
                   \A j \in DOMAIN outFile[i].frags : outFile[i].frags[j].f # f

\* a feature that held fragments ended without being written, and the
\* feature after it was written
C2_Witness ==
    /\ Len(hist) = 2
    /\ hist[1].ended /\ hist[1].appended > 0 /\ ~hist[1].approved
    /\ hist[2].written /\ WrittenFragments(2) # <<>>

\* C3: between beginFeature and endFeature the flag is true exactly when a
\* section holds a fragment, and the endFeature of a feature whose sections
\* are all empty writes nothing.
C3_FlagTellsFragments ==
    /\ [](featureName # <<>> =>
             (feature_not_empty <=> \E s \in DOMAIN sections : sections[s] # <<>>))
    /\ [][(last' = "endFeature" /\ \A s \in DOMAIN sections : sections[s] = <<>>)
             => outFile' = outFile]_vars

\* an emitted feature of the backup generator ended for which a command was
\* generated whose text was dropped: nothing was written for it
C3_Witness ==
    /\ gen = "BK"
    /\ last = "endFeature"
    /\ err = "none"
    /\ hist[Len(hist)].emit
    /\ hist[Len(hist)].generated > 0
    /\ hist[Len(hist)].appended = 0
    /\ LinesOf(Len(hist)) = <<>>

\* s with its elements in the opposite order
Reverse(s) == [i \in DOMAIN s |-> s[Len(s) + 1 - i]]

\* the closing line c closes the guard the line o opens: the same guard,
\* and the comment of c, when it has one, names the symbol o tests
Matches(o, c) ==
    /\ o.g = c.g
    /\ \/ c.a = s_endif
       \/ \E n \in 1..(Len(o.a) - 1) :
              c.a \in { s_endif \o s_cmt_open \o Drop(o.a, n) \o s_cmt_close,
                        s_endif \o s_cmt_open_not \o Drop(o.a, n) \o s_cmt_close }

\* C4: when endFeature of the primary generator returns from writing a
\* feature, every guard it opened (feature, extra protect, prototype,
\* extension prototype) is closed by exactly one matching line, the closing
\* lines come after the opening lines and in the opposite order, and no
\* extension prototype guard is opened for a core version feature.
C4_GuardsClosed ==
    gen = "V" =>
        \A f \in DOMAIN hist :
            hist[f].written =>
                LET ls == LinesOf(f)
                    opens == SelectSeq(ls, LAMBDA l : l.k = "open")
                    closes == SelectSeq(ls, LAMBDA l : l.k = "close")
                IN  /\ Len(closes) = Len(opens)
                    /\ \A i \in DOMAIN opens : Matches(opens[i], Reverse(closes)[i])
                    /\ \A i, j \in DOMAIN opens : opens[i].g = opens[j].g => i = j
                    /\ \A i, j \in DOMAIN ls : (ls[i].k = "open" /\ ls[j].k = "close") => i < j
                    /\ StartsWith(hist[f].name, s_VK_ \o s_VERSION_) =>
                           \A i \in DOMAIN opens : opens[i].g # "extproto"

\* an extension with a platform guard was written with all four guards
\* opened, and a core version feature was written with commands under
\* options that ask for the extension prototype guard
C4_Witness ==
    /\ gen = "V"
    /\ \E f \in DOMAIN hist :
           /\ hist[f].written
           /\ Len(SelectSeq(LinesOf(f), LAMBDA l : l.k = "open")) = 4
    /\ \E f \in DOMAIN hist :
           /\ hist[f].written
           /\ hist[f].core
           /\ Options[genOpts].protectExtensionProto # <<>>
           /\ \E i \in DOMAIN LinesOf(f) : LinesOf(f)[i].k = "sec" /\ LinesOf(f)[i].g = "command"

(***************************************************************************)
(* Runs of the primary generator over the registry of types, aliases and   *)
(* groups, in which a second instance of the class may be constructed      *)
(***************************************************************************)
InitTables == FnIdle /\ InitGen("V", "tables")

NextTables ==
    BeginFile \/ BeginFeature \/ GenType \/ GenGroup \/ EndFeature \/ EndFile \/ NewInstance

SpecTables == InitTables /\ [][NextTables]_vars

\* a is a prefix of b: the list b is a with entries appended
IsPrefix(a, b) == Len(a) <= Len(b) /\ SubSeq(b, 1, Len(a)) = a

\* every entry of the dict m is an entry of m2
DictKept(m, m2) == \A k \in DOMAIN m : k \in DOMAIN m2 /\ m2[k] = m[k]

\* the four tables of T are those of T2
SameFour(T, T2) ==
    /\ T2.ALIAS_TO_BASE_TYPE_MAP = T.ALIAS_TO_BASE_TYPE_MAP
    /\ T2.C_STRUCT_ARR = T.C_STRUCT_ARR
    /\ T2.ENUM_TYPES = T.ENUM_TYPES
    /\ T2.STRUCTURE_TYPES = T.STRUCTURE_TYPES

\* C5: over a run of several features and files, ALIAS_TO_BASE_TYPE_MAP,
\* C_STRUCT_ARR, ENUM_TYPES and STRUCTURE_TYPES only grow: no callback
\* removes an entry, and beginFile, beginFeature, endFeature and endFile
\* leave the four tables as they are.
C5_TablesOnlyGrow ==
    [][ /\ DictKept(tables.ALIAS_TO_BASE_TYPE_MAP, tables'.ALIAS_TO_BASE_TYPE_MAP)
        /\ IsPrefix(tables.C_STRUCT_ARR, tables'.C_STRUCT_ARR)
        /\ IsPrefix(tables.ENUM_TYPES, tables'.ENUM_TYPES)
        /\ IsPrefix(tables.STRUCTURE_TYPES, tables'.STRUCTURE_TYPES)
        /\ last' \in {"beginFile", "beginFeature", "endFeature", "endFile"}
               => SameFour(tables, tables') ]_vars

\* a feature of the second file is being translated, and each of the four
\* tables holds an entry that was recorded while the first file was
\* generated
C5_Witness ==
    /\ nFile = 2
    /\ featureName # <<>>
    /\ declared = {}
    /\ hist[1].file = 1
    /\ DOMAIN tables.ALIAS_TO_BASE_TYPE_MAP # {}
    /\ tables.C_STRUCT_ARR # <<>>
    /\ tables.ENUM_TYPES # <<>>
    /\ tables.STRUCTURE_TYPES # <<>>

\* the tables a second instance reads through self: the class attributes
TablesSeenBySecond == tables

\* C6: the five tables are scoped to one instance: a freshly constructed
\* instance finds them in their seed state, and no callback of the first
\* instance changes them as the second instance sees them.  The code does
\* not keep this: the tables are class attributes that the callbacks mutate
\* in place.
C6_TablesPerInstance ==
    /\ [](second.made => second.found = SeedTablesOf(gen))
    /\ [][second.made => TablesSeenBySecond' = TablesSeenBySecond]_vars

\* the declaration of the table registry with the name n
DeclNamed(n) == RegistryTables[CHOOSE i \in DOMAIN RegistryTables : RegistryTables[i].name = n]

RECURSIVE AliasChain(_)
\* the declarations an alias passes through: the type it names, the type
\* that one names, down to the type that is no alias
AliasChain(d) ==
    IF d.alias = <<>> THEN <<>>
    ELSE <<DeclNamed(d.alias)>> \o AliasChain(DeclNamed(d.alias))

\* the primitive an alias chain of types ends in: voidptr for a handle, the
\* TYPE_MAP value of the C type for a typedef
ChainPrimitive(d) ==
    LET root == AliasChain(d)[Len(AliasChain(d))]
    IN  IF IsHandleElem(root) THEN s_voidptr ELSE TYPE_MAP(root.ctype)

\* the fragments held in the sections and written to the output
AllFragments ==
    UNION {Range(sections[s]) : s \in DOMAIN sections}
    \cup UNION {Range(outFile[i].frags) : i \in DOMAIN outFile}

\* C10: an alias whose chain ends in a TYPE_MAP primitive or in the voidptr
\* of a handle is emitted as an alias of that primitive, never of a name in
\* between, and once it is translated its name and every name in between
\* are keys of ALIAS_TO_BASE_TYPE_MAP mapped to that primitive.  The code
\* does not keep this for a primitive that BASE_TYPES_ARR does not list.
C10_AliasesFlattened ==
    (registry = "tables" /\ err = "none") =>
        \A i \in DOMAIN RegistryTables :
            LET d == RegistryTables[i]
                m == tables.ALIAS_TO_BASE_TYPE_MAP
            IN  (d.kind = "type" /\ d.category \in {"bitmask", "handle"} /\ d.alias # <<>>
                 /\ d.id \in declared) =>
                    /\ \A fr \in AllFragments :
                           (fr.txt.k = "type" /\ fr.txt.n = removeVk(d.name))
                               => fr.txt.t = ChainPrimitive(d)
                    /\ \A n \in {removeVk(d.name)}
                                \cup {removeVk(AliasChain(d)[j].name) : j \in DOMAIN AliasChain(d)} :
                           InDict(n, m) /\ m[n] = ChainPrimitive(d)

(***************************************************************************)
(* removeVk applied to identifiers.  The identifiers are the               *)
(* concatenations of at most MaxParts of the pieces below.                 *)
(***************************************************************************)
MaxParts == 3

IdentifierParts ==
    { <<"v", "k", "_">>, <<"v", "k">>, <<"V", "k">>, <<"V", "K", "_">>, <<"t", "r", "u", "e">>, <<"f", "a", "l", "s", "e">>, <<"x">>, <<"F", "o", "o">> }

Identifiers == {Concat(p) : p \in SeqsUpTo(IdentifierParts, MaxParts)}

\* the generator instance is constructed and left alone
GenIdle == InitGen("V", "order")

InitRemoveVk ==
    /\ GenIdle
    /\ fnGen \in {"V", "BK"}
    /\ fnArg \in Identifiers
    /\ fnRes = <<>>
    /\ fnRes2 = <<>>
    /\ fnStage = "arg"

\* removeVk(s)
CallRemoveVk ==
    /\ fnStage = "arg"
    /\ fnRes' = removeVkOf(fnGen, fnArg)
    /\ fnStage' = "once"
    /\ UNCHANGED <<fnGen, fnArg, fnRes2>>
    /\ UNCHANGED genVars

\* removeVk(removeVk(s))
CallRemoveVkAgain ==
    /\ fnStage = "once"
    /\ fnRes2' = removeVkOf(fnGen, fnRes)
    /\ fnStage' = "twice"
    /\ UNCHANGED <<fnGen, fnArg, fnRes>>
    /\ UNCHANGED genVars

NextRemoveVk == CallRemoveVk \/ CallRemoveVkAgain

SpecRemoveVk == InitRemoveVk /\ [][NextRemoveVk]_vars

\* C7: removeVk is idempotent in both generators: removeVk(removeVk(s)) =
\* removeVk(s) for every string s.  The code does not keep this: a string
\* that carries the prefix twice loses it twice.
C7_Idempotent == fnStage = "twice" => fnRes2 = fnRes

\* the recognized namespace prefix the identifier s begins with
RecognizedPrefix(s) ==
    IF StartsWith(Lower(s), s_vk_) THEN 3
    ELSE IF StartsWith(Lower(s), s_vk) THEN 2
    ELSE 0

\* C8: removeVk returns vk_true and vk_false (in any letter case) unchanged,
\* and every other identifier that begins with vk_ or vk loses exactly one
\* recognized prefix per call.  The code does not keep this: the primary
\* generator cuts 'vk' off the two boolean spellings, and both generators cut
\* two prefixes off an identifier that carries 'vk_' and then 'vk'.
C8_ExemptAndOnce ==
    fnStage # "arg" =>
        IF Lower(fnArg) \in {s_vk_true, s_vk_false} THEN fnRes = fnArg
        ELSE fnRes = Drop(fnArg, RecognizedPrefix(fnArg))

(***************************************************************************)
(* v_camel_to_snake_case applied to type names: the documented examples    *)
(* and the concatenations of at most MaxCamelParts of the words below.     *)
(***************************************************************************)
MaxCamelParts == 3

CamelWords == { <<"D", "e", "v", "i", "c", "e">>, <<"I", "D">>, <<"1", "6">>, <<"B", "i", "t">>, <<"I", "n", "f", "o", "2">> }

\* the examples the comments at CAMEL_TO_SNAKE_CASE_REGEX give
CamelExamples ==
    { << <<"P", "h", "y", "s", "i", "c", "a", "l", "D", "e", "v", "i", "c", "e", "V", "u", "l", "k", "a", "n", "1", "3", "F", "e", "a", "t", "u", "r", "e", "s">>,
         <<"p", "h", "y", "s", "i", "c", "a", "l", "_", "d", "e", "v", "i", "c", "e", "_", "v", "u", "l", "k", "a", "n", "1", "_", "3", "_", "f", "e", "a", "t", "u", "r", "e", "s">> >>,
      << <<"P", "h", "y", "s", "i", "c", "a", "l", "D", "e", "v", "i", "c", "e", "1", "6", "B", "i", "t", "S", "t", "o", "r", "a", "g", "e", "F", "e", "a", "t", "u", "r", "e", "s">>,
         <<"p", "h", "y", "s", "i", "c", "a", "l", "_", "d", "e", "v", "i", "c", "e", "1", "6", "b", "i", "t", "_", "s", "t", "o", "r", "a", "g", "e", "_", "f", "e", "a", "t", "u", "r", "e", "s">> >>,
      << <<"B", "u", "f", "f", "e", "r", "M", "e", "m", "o", "r", "y", "R", "e", "q", "u", "i", "r", "e", "m", "e", "n", "t", "s", "I", "n", "f", "o", "2">>,
         <<"b", "u", "f", "f", "e", "r", "_", "m", "e", "m", "o", "r", "y", "_", "r", "e", "q", "u", "i", "r", "e", "m", "e", "n", "t", "s", "_", "i", "n", "f", "o", "2">> >>,
      << <<"P", "h", "y", "s", "i", "c", "a", "l", "D", "e", "v", "i", "c", "e", "I", "D", "P", "r", "o", "p", "e", "r", "t", "i", "e", "s">>,
         <<"p", "h", "y", "s", "i", "c", "a", "l", "_", "d", "e", "v", "i", "c", "e", "_", "i", "d", "_", "p", "r", "o", "p", "e", "r", "t", "i", "e", "s">> >> }

CamelNames == {e[1] : e \in CamelExamples} \cup {Concat(p) : p \in SeqsUpTo(CamelWords, MaxCamelParts)}

InitCamel ==
    /\ GenIdle
    /\ fnGen = "V"
    /\ fnArg \in CamelNames
    /\ fnRes = <<>>
    /\ fnRes2 = <<>>
    /\ fnStage = "arg"

\* v_camel_to_snake_case(v_name)
CallCamel ==
    /\ fnStage = "arg"
    /\ fnRes' = v_camel_to_snake_case(fnArg)
    /\ fnStage' = "once"
    /\ UNCHANGED <<fnGen, fnArg, fnRes2>>
    /\ UNCHANGED genVars

NextCamel == CallCamel

SpecCamel == InitCamel /\ [][NextCamel]_vars

\* C9: v_camel_to_snake_case turns each documented example into the snake
\* case name documented for it.  The code does not keep this: it puts no
\* underscore between two digits and puts one before a capital that follows
\* a digit.
C9_Examples ==
    fnStage = "once" => \A e \in CamelExamples : fnArg = e[1] => fnRes = e[2]

(***************************************************************************)
(* makeVParamDecl applied to the members and parameters of the registry.   *)
(* A declarator is built as the registry writes it: the type, the name and *)
(* the dimensions, a dimension being a numeric literal (text in the tail   *)
(* of the element ahead of it) or an <enum> element.                       *)
(***************************************************************************)
MaxDims == 2

n_VK_UUID_SIZE == <<"V", "K", "_", "U", "U", "I", "D", "_", "S", "I", "Z", "E">>

n_float == <<"f", "l", "o", "a", "t">>

n_void == <<"v", "o", "i", "d">>

n_VkOffset3D == <<"V", "k", "O", "f", "f", "s", "e", "t", "3", "D">>

n_VkImageType == <<"V", "k", "I", "m", "a", "g", "e", "T", "y", "p", "e">>

n_pipelineCacheUUID == <<"p", "i", "p", "e", "l", "i", "n", "e", "C", "a", "c", "h", "e", "U", "U", "I", "D">>

n_matrix == <<"m", "a", "t", "r", "i", "x">>

n_pCreateInfo == <<"p", "C", "r", "e", "a", "t", "e", "I", "n", "f", "o">>

n_count == <<"c", "o", "u", "n", "t">>

n_mask_8 == <<"m", "a", "s", "k", ":", "8">>

n_ApplicationInfo == <<"A", "p", "p", "l", "i", "c", "a", "t", "i", "o", "n", "I", "n", "f", "o">>

n_Device16Bit == <<"D", "e", "v", "i", "c", "e", "1", "6", "B", "i", "t">>

n_Extent2D == <<"E", "x", "t", "e", "n", "t", "2", "D">>

m_device16bit == <<"d", "e", "v", "i", "c", "e", "1", "6", "b", "i", "t">>

m_device16_bit == <<"d", "e", "v", "i", "c", "e", "1", "6", "_", "b", "i", "t">>

m_device_16_bit == <<"d", "e", "v", "i", "c", "e", "_", "1", "6", "_", "b", "i", "t">>

\* a dimension: <enum>tok</enum> or the literal tok
Dim(enum, tok) == [enum |-> enum, tok |-> tok]

Dims == { Dim(TRUE, n_VK_UUID_SIZE), Dim(TRUE, n_VK_MAX_NAME), Dim(FALSE, <<"3">>), Dim(FALSE, <<"4">>) }

\* the text of a dimension as makeVParamDecl is to put it into the type
DimText(d) == <<"[">> \o removeVk(Lower(d.tok)) \o <<"]">>

RECURSIVE WithDims(_, _)
\* the children of a declarator, the dimensions dims added to the children elems
WithDims(elems, dims) ==
    IF dims = <<>> THEN elems
    ELSE LET n == Len(elems)
             d == Head(dims)
         IN  IF d.enum
             THEN WithDims(Append([elems EXCEPT ![n].tail = @ \o <<"[">>],
                                  Elem("enum", d.tok, <<"]">>)), Tail(dims))
             ELSE WithDims([elems EXCEPT ![n].tail = @ \o <<"[">> \o d.tok \o <<"]">>], Tail(dims))

\* <member>const <type>ctype</type>ptr <name>name</name>dims</member>
Declarator(const, ctype, ptr, name, dims) ==
    Param(IF const THEN s_const_sp ELSE <<>>,
          WithDims(<<Elem("type", ctype, ptr \o <<" ">>), Elem("name", name, <<>>)>>, dims))

\* the ways the generator calls makeVParamDecl: for a member by genStruct
\* as genType calls it and as it is called without the keyword, for a
\* parameter of a declaration, of a declaration with arrays as voidptr, and of a call
ParamCalls ==
    { ParamFlags(TRUE, FALSE, TRUE, FALSE),
      ParamFlags(TRUE, FALSE, FALSE, FALSE),
      ParamFlags(FALSE, FALSE, FALSE, FALSE),
      ParamFlags(FALSE, FALSE, FALSE, TRUE),
      ParamFlags(FALSE, TRUE, FALSE, FALSE) }

\* the tables once the types and groups of the registry are generated,
\* with the structure types cat
ParamTables(cat) ==
    [ SeedTables EXCEPT
        !.ALIAS_TO_BASE_TYPE_MAP =
            DictSet(DictSet(DictSet(DictSet(EmptyDict,
                Drop(n_VkFlags, 2), s_u32),
                Drop(n_VkOctet, 2), <<"u", "8">>),
                n_Extent2D, s_C_ \o n_VkExtent2D),
                Drop(n_VkOffset3D, 2), s_C_ \o n_VkOffset3D),
        !.ENUM_TYPES = <<s_StructureType, Drop(n_VkImageType, 2)>>,
        !.STRUCTURE_TYPES = cat ]

\* catalogues of structure types: none yet, one with two entries that match
\* Device16Bit, and one where the snake-cased name comes after such an entry
Catalogues ==
    { <<>>,
      <<m_application_info, m_device16bit, m_device_16_bit>>,
      <<m_device_16_bit, m_application_info, m_device16_bit>> }

\* a call of makeVParamDecl: the tables, the arguments and, of the
\* declarator, the C type, the name and the dimensions it was written with
ParamArg(T, typeName, c, t, ptr, n, dims, aligncol, F) ==
    [T |-> T, typeName |-> typeName, param |-> Declarator(c, t, ptr, n, dims),
     aligncol |-> aligncol, F |-> F, const |-> c, ctype |-> t, ptr |-> ptr, name |-> n,
     dims |-> dims]

\* array declarators
ArrayArgs ==
    { ParamArg(ParamTables(<<>>), n_Extent2D, c, t, <<>>, n, dims, a, F) :
        c \in BOOLEAN, t \in {n_uint8_t, n_float, n_VkOffset3D},
        n \in {n_pipelineCacheUUID, n_matrix},
        dims \in {s \in SeqsUpTo(Dims, MaxDims) : s # <<>>},
        a \in {0, 12}, F \in ParamCalls }

\* declarators without dimensions
PlainArgs ==
    { ParamArg(ParamTables(<<>>), n_Extent2D, c, t[1], t[2], n, <<>>, a, F) :
        c \in BOOLEAN,
        t \in { <<n_uint8_t, <<>>>>, <<n_uint32_t, <<>>>>, <<n_float, <<>>>>, <<n_VkFlags, <<>>>>,
                <<n_VkOctet, <<>>>>, <<n_VkImageType, <<>>>>, <<n_VkExtent2D, <<>>>>,
                <<n_VkExtent2D, <<"*">>>>, <<n_void, <<"*">>>> },
        n \in {n_pCreateInfo, n_count, s_pNext, s_pUserData, s_module, s_type, n_mask_8},
        a \in {0, 12}, F \in ParamCalls }

\* the member sType of three structs, under each catalogue
STypeArgs ==
    { ParamArg(ParamTables(cat), tn, FALSE, n_VkStructureType, <<>>, s_sType, <<>>, a, F) :
        cat \in Catalogues, tn \in {n_ApplicationInfo, n_Device16Bit, n_Extent2D},
        a \in {0, 12}, F \in ParamCalls }

InitParam ==
    /\ GenIdle
    /\ fnGen = "V"
    /\ fnArg \in ArrayArgs \cup PlainArgs \cup STypeArgs
    /\ fnRes = <<>>
    /\ fnRes2 = <<>>
    /\ fnStage = "arg"

\* makeVParamDecl(typeName, param, aligncol, ...)
CallMakeVParamDecl ==
    /\ fnStage = "arg"
    /\ fnRes' = makeVParamDecl(fnArg.T, <<Options[1]>>, fnArg.typeName, fnArg.param,
                               fnArg.aligncol, fnArg.F)
    /\ fnStage' = "once"
    /\ UNCHANGED <<fnGen, fnArg, fnRes2>>
    /\ UNCHANGED genVars

NextParam == CallMakeVParamDecl

SpecParam == InitParam /\ [][NextParam]_vars


\* the dimensions dims as text of a type, in source order
DimsText(dims) == Concat([i \in DOMAIN dims |-> DimText(dims[i])])

\* C11: makeVParamDecl removes every static-array suffix from the declared
\* name and moves it into the type as a demangled, lowercased dimension, the
\* dimensions in source order ahead of the element type; no bracket is left
\* in the name, whether a dimension is an enum token or a numeric literal,
\* and pipelineCacheUUID[VK_UUID_SIZE] of type uint8_t becomes the name
\* pipeline_cache_uuid with the type [uuid_size]u8.  The code does not keep
\* this: the array pattern is tried once for every child element, so of two
\* dimensions written as literals only the first one is moved.
C11_ArraysMovedToType ==
    (fnStage = "once" /\ fnArg.dims # <<>> /\ ~fnArg.F.do_array_voidptr) =>
        /\ ~Contains(fnRes.v_name, <<"[">>)
        /\ ~Contains(fnRes.v_name, <<"]">>)
        /\ fnRes.v_type = DimsText(fnArg.dims) \o ParamVType(fnArg.T, fnArg.ctype)
        /\ (/\ fnArg.name = n_pipelineCacheUUID /\ fnArg.ctype = n_uint8_t
            /\ fnArg.dims = <<Dim(TRUE, n_VK_UUID_SIZE)>> /\ ~fnArg.F.keep_vk_member_name)
           => (fnRes.v_name = <<"p", "i", "p", "e", "l", "i", "n", "e", "_", "c", "a", "c", "h", "e", "_", "u", "u", "i", "d">> /\ fnRes.v_type = <<"[", "u", "u", "i", "d", "_", "s", "i", "z", "e", "]", "u", "8">>)


\* the V types the Type Map translates C primitives to, without reference sigils
TypeMapPrimitives == { LStrip(it[2], "&") : it \in TYPE_MAP_ITEMS } \ {<<>>}

\* a V type without its reference sigils and its foreign qualifier
BaseTypeOf(v_type) ==
    LET t == LStrip(v_type, "&")
    IN  IF StartsWith(t, s_C_Vk) THEN Drop(t, Len(s_C_Vk)) ELSE t

\* C15: a parameter of a function is marked mut if and only if it is not
\* const-qualified and its base type is neither a primitive of the Type Map,
\* nor a known enum type, nor an alias that resolves to a primitive.  The
\* code does not keep this: it tests the base type against BASE_TYPES_ARR,
\* which lacks primitives of the Type Map (u8 among them), so a parameter of
\* type uint8_t, or of an alias of it, that is not const is marked mut.
C15_MutInference ==
    (/\ fnStage = "once"
     /\ ~fnArg.F.do_struct_members /\ ~fnArg.F.do_c_to_v_func_call_params
     /\ fnArg.dims = <<>>) =>
        LET base == BaseTypeOf(fnRes.v_type)
            primitive == base \in TypeMapPrimitives
            enum == InList(base, fnArg.T.ENUM_TYPES)
            aliased == /\ InDict(base, fnArg.T.ALIAS_TO_BASE_TYPE_MAP)
                       /\ fnArg.T.ALIAS_TO_BASE_TYPE_MAP[base] \in TypeMapPrimitives
        IN  StartsWith(fnRes.paramdecl, s_mut \o <<" ">>)
                <=> (~fnArg.const /\ ~primitive /\ ~enum /\ ~aliased)


\* the catalogue entries that equal the struct name once both are case-folded
\* and stripped of underscores, in catalogue order
MatchingEntries(cat, typeName) ==
    SelectSeq(cat, LAMBDA e : RemoveChar(e, "_") = RemoveChar(Lower(typeName), "_"))

\* the member sType of a struct as genType has it translated
IsSTypeMember ==
    /\ fnStage = "once"
    /\ fnArg.name = s_sType
    /\ fnArg.F.do_struct_members /\ fnArg.F.keep_vk_member_name

\* C17: the member sType of a struct carries the initializer
\* ' = StructureType.<entry>' if and only if some entry of the catalogue
\* equals the case-folded struct name once underscores are removed from
\* both; the entry is the case-folded name of the struct as the catalogue
\* spells names (snake case) when the catalogue holds it, otherwise the first
\* entry that matches; without a match the declaration ends with the type.
C17_STypeDefault ==
    IsSTypeMember =>
        LET cat == fnArg.T.STRUCTURE_TYPES
            hits == MatchingEntries(cat, fnArg.typeName)
            exact == Lower(v_camel_to_snake_case(fnArg.typeName))
            entry == IF InList(exact, cat) THEN exact ELSE hits[1]
        IN  IF hits = <<>>
            THEN /\ ~Contains(fnRes.paramdecl, <<"=">>)
                 /\ EndsWith(fnRes.paramdecl, fnRes.v_type)
            ELSE EndsWith(fnRes.paramdecl, <<" ">> \o fnRes.v_type \o s_StructureType_dot \o entry)

\* a struct whose snake-cased name the catalogue lacks takes the first of two
\* entries that match without underscores
C17_Witness ==
    /\ IsSTypeMember
    /\ fnArg.typeName = n_Device16Bit
    /\ fnArg.T.STRUCTURE_TYPES = <<m_application_info, m_device16bit, m_device_16_bit>>
    /\ EndsWith(fnRes.paramdecl, s_StructureType_dot \o m_device16bit)


(***************************************************************************)
(* genGroup applied to groups of at most MaxMembers members.  The values    *)
(* are the ends of the two ranges and their neighbours, and a member is     *)
(* required, required under a platform guard, or not required.              *)
(***************************************************************************)
MaxMembers == 2

n_VK_M0 == <<"V", "K", "_", "M", "0">>

n_VK_M1 == <<"V", "K", "_", "M", "1">>

n_VK_M2 == <<"V", "K", "_", "M", "2">>

n_VkPresentModeKHR == <<"V", "k", "P", "r", "e", "s", "e", "n", "t", "M", "o", "d", "e", "K", "H", "R">>

n_VkAccessFlagBits == <<"V", "k", "A", "c", "c", "e", "s", "s", "F", "l", "a", "g", "B", "i", "t", "s">>

\* the pairs (numVal, strVal) of the members that have a number
MemberValues ==
    { <<IntVal(FALSE, <<"0">>), <<"0">>>>,
      <<IntVal(TRUE, <<"1">>), <<"-", "1">>>>,
      <<MaxInt32, <<"0", "x", "7", "F", "F", "F", "F", "F", "F", "F">>>>,
      <<MaxInt32, <<"2", "1", "4", "7", "4", "8", "3", "6", "4", "7">>>>,
      <<IntVal(FALSE, <<"2", "1", "4", "7", "4", "8", "3", "6", "4", "8">>), <<"0", "x", "8", "0", "0", "0", "0", "0", "0", "0">>>>,
      <<IntVal(TRUE, <<"2", "1", "4", "7", "4", "8", "3", "6", "4", "9">>), <<"-", "2", "1", "4", "7", "4", "8", "3", "6", "4", "9">>>>,
      <<IntVal(FALSE, <<"1", "8", "4", "4", "6", "7", "4", "4", "0", "7", "3", "7", "0", "9", "5", "5", "1", "6", "1", "6">>), <<"0", "x", "1", "0", "0", "0", "0", "0", "0", "0", "0", "0", "0", "0", "0", "0", "0", "0", "0">>>> }

\* the member an alias at place i names: the first member of the group, and
\* for the first member one the group does not have
AliasAt(i) == IF i = 1 THEN n_VK_M0 ELSE n_VK_M1

\* the members a group can hold at place i: a member of the group's own
\* <enums> block, or the member -1 that an extension adds to the group
MembersAt(i) ==
    { EnumMember(IF i = 1 THEN n_VK_M1 ELSE n_VK_M2 \o [k \in 1..(i - 2) |-> "x"],
                 v[1], v[2], rp[1], rp[2], FALSE) :
        v \in MemberValues \cup { <<None, AliasAt(i)>> },
        rp \in { <<TRUE, <<>>>>, <<TRUE, n_VK_USE_PLATFORM_X>>, <<FALSE, <<>>>> } }
    \cup { EnumMember(IF i = 1 THEN n_VK_M1 ELSE n_VK_M2 \o [k \in 1..(i - 2) |-> "x"],
                      IntVal(TRUE, <<"1">>), <<"-", "1">>, TRUE, <<>>, TRUE) }

\* the member lists of length 1..MaxMembers
MemberLists ==
    UNION { { ms \in [1..k -> UNION {MembersAt(i) : i \in 1..k}] :
                \A i \in 1..k : ms[i] \in MembersAt(i) } : k \in 1..MaxMembers }

\* <enums name=... type=... bitwidth=...>
GroupOf(name, gtype, bitwidth, members) ==
    [GroupDecl(1, name, gtype, members) EXCEPT !.bitwidth = bitwidth]

\* the groups: two enumerations, a 32-bit and a 64-bit family of flags
Groups ==
    { GroupOf(g[1], g[2], g[3], ms) :
        g \in { <<n_VkResult, "enum", 0>>, <<n_VkPresentModeKHR, "enum", 0>>,
                <<n_VkAccessFlagBits, "bitmask", 0>>, <<n_VkAccessFlagBits, "bitmask", 64>> },
        ms \in MemberLists }

\* the state of a generator that has appended nothing yet
FreshG ==
    [ sections |-> EmptySections, feature_not_empty |-> FALSE, T |-> SeedTables,
      err |-> "none", f |-> 1, n |-> 0 ]

InitGroup ==
    /\ GenIdle
    /\ fnGen \in {"V", "BK"}
    /\ fnArg \in { [d |-> d, opts |-> o] : d \in Groups, o \in {1, 3} }
    /\ fnRes = <<>>
    /\ fnRes2 = <<>>
    /\ fnStage = "arg"

\* VOutputGenerator.genGroup(groupinfo, groupName)
CallGenGroup ==
    /\ fnStage = "arg"
    /\ fnGen = "V"
    /\ fnRes' = genGroup(FreshG, <<Options[fnArg.opts]>>, fnArg.d)
    /\ fnStage' = "once"
    /\ UNCHANGED <<fnGen, fnArg, fnRes2>>
    /\ UNCHANGED genVars

\* VOutputGeneratorBK.buildEnumVDecl_Enum(expand, groupinfo, groupName, None),
\* as genGroup of the backup generator calls it for a group that is not a
\* family of flags of more than 32 bits
CallBuildEnumBK ==
    /\ fnStage = "arg"
    /\ fnGen = "BK"
    /\ fnArg.d.bitwidth = 0 /\ ~Options[fnArg.opts].misracppstyle
    /\ fnRes' = buildEnumVDecl_EnumBK(fnArg.d, removeVkBK(fnArg.d.name))
    /\ fnStage' = "once"
    /\ UNCHANGED <<fnGen, fnArg, fnRes2>>
    /\ UNCHANGED genVars

NextGroup == CallGenGroup \/ CallBuildEnumBK

SpecGroup == InitGroup /\ [][NextGroup]_vars


\* a member of the group of the call has a number outside [lo, hi]
SomeMemberOutside(lo, hi) ==
    \E i \in DOMAIN fnArg.d.members :
        /\ fnArg.d.members[i].numVal # None
        /\ OutOfRange(fnArg.d.members[i].numVal, lo, hi)

\* the call has raised, and has appended no fragment
GroupAborted ==
    IF fnGen = "V" THEN fnRes.err # "none" /\ fnRes.sections = EmptySections
    ELSE fnRes.err # "none" /\ fnRes.body = <<>>

\* C12: in the primary generator, a group of flags of any bit width that
\* holds a member whose number is above 2^64-1 or below 0 makes genGroup
\* abort with an error and append no fragment
C12_FlagRangeAborts ==
    ( /\ fnStage = "once" /\ fnGen = "V"
      /\ fnArg.d.category = "bitmask"
      /\ SomeMemberOutside(Zero, MaxUInt64) )
    => GroupAborted

\* C13: in both generators, a plain enumeration that holds a member,
\* required or not and platform-guarded or not, whose number is outside
\* [-2^31, 2^31-1] makes the generation of the group abort with an error
\* and append no fragment
C13_EnumRangeAborts ==
    ( /\ fnStage = "once"
      /\ fnArg.d.category = "enum"
      /\ SomeMemberOutside(MinInt32, MaxInt32) )
    => GroupAborted

\* the text the call has produced for the group, line by line
GroupLines ==
    IF fnGen = "V" THEN Split(fnRes.sections["group"][1].txt.t, "\n")
    ELSE Split(fnRes.body, "\n")

\* the lines of the group that declare a sentinel
SentinelLines == { i \in DOMAIN GroupLines : Contains(GroupLines[i], <<"m", "a", "x", "_", "e", "n", "u", "m">>) }

\* a declared member of the group is written 0x7FFFFFFF or 0xFFFFFFFF
DeclaresMaxValue ==
    \E i \in DOMAIN fnArg.d.members :
        /\ fnArg.d.members[i].required /\ fnArg.d.members[i].protect = <<>>
        /\ fnArg.d.members[i].strVal \in { <<"0", "x", "7", "F", "F", "F", "F", "F", "F", "F">>, <<"0", "x", "F", "F", "F", "F", "F", "F", "F", "F">> }

\* C14: a plain enumeration that declares a member of the largest signed
\* 32-bit value gets no sentinel; every other one gets exactly one, named
\* <prefix>_max_enum<suffix> and given the literal 0x7FFFFFFF
C14_SentinelOnce ==
    ( /\ fnStage = "once"
      /\ fnArg.d.category = "enum"
      /\ fnRes.err = "none" )
    => IF DeclaresMaxValue THEN SentinelLines = {}
       ELSE /\ Cardinality(SentinelLines) = 1
            /\ \A i \in SentinelLines :
                 /\ StartsWith(GroupLines[i],
                               s_indent \o Lower(ExpandPrefix(removeVk(fnArg.d.name))) \o <<"_", "m", "a", "x", "_", "e", "n", "u", "m">>
                               \o Lower(ExpandSuffix(removeVk(fnArg.d.name))) \o <<" ", "=", " ">>)
                 /\ Contains(GroupLines[i], <<"0", "x", "7", "F", "F", "F", "F", "F", "F", "F">>)

\* the declarations whose C rendering genType has captured while the current
\* file was generated: the types, other than structs and unions, that were
\* generated into it and hold an entry of REPLACEMENT_CONTAINS_ARR
CapturedDecls ==
    { i \in DOMAIN RegistryOf(registry) :
        LET d == RegistryOf(registry)[i]
        IN  /\ d.id \in declared
            /\ d.kind = "type" /\ d.category \notin {"struct", "union"}
            /\ ~d.cDeprecated
            /\ REPLACEMENT_CONTAINS_ARR_Count(CBody(d)) > 0 }

\* the keys of the fragments captured while the current file was generated
CapturedKeys == { key_string(escStr(CBody(RegistryOf(registry)[i]))) : i \in CapturedDecls }

\* C16: the side file endFile writes holds exactly one entry for every
\* distinct fragment captured while that file was generated, and none of an
\* earlier file; no key holds a newline
C16_LedgerComplete ==
    (last = "endFile" /\ err = "none") =>
        /\ Range(sideFile) = CapturedKeys
        /\ Len(sideFile) = Cardinality(CapturedKeys)
        /\ \A i \in DOMAIN sideFile : ~Contains(sideFile[i].t, s_nl)

(***************************************************************************)
(* The callbacks of one feature, called on an instance whose genOpts is    *)
(* None, an options object without conventions, or a complete options      *)
(* object: genType for a typedef, genType for a struct (which hands it to   *)
(* genStruct), genGroup, genCmd and endFeature, each for a declaration the  *)
(* feature may or may not hold.  fnRes is the state of the instance,        *)
(* fnRes2 the state ahead of the last callback and the lines written.       *)
(***************************************************************************)
n_VkRenderArea == <<"V", "k", "R", "e", "n", "d", "e", "r", "A", "r", "e", "a">>

n_VkRenderAreaKHR == <<"V", "k", "R", "e", "n", "d", "e", "r", "A", "r", "e", "a", "K", "H", "R">>

n_vkCreateDeviceKHR == <<"v", "k", "C", "r", "e", "a", "t", "e", "D", "e", "v", "i", "c", "e", "K", "H", "R">>

n_pExtent == <<"p", "E", "x", "t", "e", "n", "t">>

n_pArea == <<"p", "A", "r", "e", "a">>

\* the options objects of the feature runs: two of the complete ones, one
\* that aligns parameters at column 48, and one whose conventions are None
FeatureOptions ==
    << Options[1], Options[2], [Options[2] EXCEPT !.alignFuncParam = 48],
       [Options[1] EXCEPT !.conventions = FALSE] >>

\* struct VkRenderArea { uint32_t count; const VkExtent2D* pExtent; }
RenderAreaMembers ==
    << Declarator(FALSE, n_uint32_t, <<>>, n_count, <<>>),
       Declarator(TRUE, n_VkExtent2D, <<"*">>, n_pExtent, <<>>) >>

\* (VkDevice device, const VkRenderArea* pArea)
CreateParams == DeviceParam \o <<Declarator(TRUE, n_VkRenderArea, <<"*">>, n_pArea, <<>>)>>

\* the declarations a feature may hold for each callback
FeatureDecls ==
    [ genType   |-> { TypedefDecl(1, n_VkFlags, n_uint32_t), TypedefDecl(1, n_VkOctet, n_uint8_t) },
      genStruct |-> { StructDecl(2, n_VkRenderArea, RenderAreaMembers, {}),
                      AliasDecl(2, n_VkRenderAreaKHR, "struct", n_VkRenderArea, {}) },
      genGroup  |-> { GroupDecl(3, n_VkPresentModeKHR, "enum", <<CoreMember(n_VK_M0, <<"0">>)>>),
                      GroupAliasDecl(3, n_VkResultKHR, n_VkResult, {}) },
      genCmd    |-> { CommandDecl(4, IF a = <<>> THEN n_vkCreateDevice ELSE n_vkCreateDeviceKHR, a,
                                  r, <<" ">>, CreateParams, {})
                      : a \in {<<>>, n_vkCreateDevice}, r \in {n_VkResult, n_void, s_PFN_vkVoidFunction} }
                    \cup
                    \* a command of no parameter and a command of one
                    { CommandDecl(4, n_vkCreateDevice, <<>>, n_VkResult, <<" ">>, ps, {})
                      : ps \in {<<>>, DeviceParam} } ]

\* no declaration, or one of S
Maybe(S) == {<<>>} \cup { <<d>> : d \in S }

FeatureCallbacks == <<"genType", "genStruct", "genGroup", "genCmd">>

CallbackRank(s) ==
    IF s = "arg" THEN 0
    ELSE IF s = "endFeature" THEN Len(FeatureCallbacks) + 1
    ELSE CHOOSE i \in DOMAIN FeatureCallbacks : FeatureCallbacks[i] = s

InitFeature ==
    /\ GenIdle
    /\ fnGen = "V"
    /\ fnArg \in { [opts |-> o, emit |-> e,
                      decls |-> [genType |-> t, genStruct |-> s, genGroup |-> g, genCmd |-> c]] :
                     o \in {<<>>} \cup { <<FeatureOptions[i]>> : i \in DOMAIN FeatureOptions },
                     e \in BOOLEAN,
                     t \in Maybe(FeatureDecls.genType), s \in Maybe(FeatureDecls.genStruct),
                     g \in Maybe(FeatureDecls.genGroup), c \in Maybe(FeatureDecls.genCmd) }
    /\ fnRes = FreshG
    /\ fnRes2 = [before |-> FreshG, out |-> <<>>]
    /\ fnStage = "arg"

\* the driver may call the callback c next: the instance raised nothing,
\* the feature holds a declaration for c and none for a callback between
DriverAt(c) ==
    /\ fnStage # "endFeature"
    /\ fnRes.err = "none"
    /\ CallbackRank(fnStage) < CallbackRank(c)
    /\ \A i \in DOMAIN FeatureCallbacks :
           (CallbackRank(fnStage) < i /\ i < CallbackRank(c)) => fnArg.decls[FeatureCallbacks[i]] = <<>>
    /\ c # "endFeature" => fnArg.decls[c] # <<>>

\* the state a callback of the feature leaves
Called(c, G) ==
    /\ fnRes' = G
    /\ fnRes2' = [before |-> fnRes, out |-> <<>>]
    /\ fnStage' = c
    /\ UNCHANGED <<fnGen, fnArg>>
    /\ UNCHANGED genVars

\* VOutputGenerator.genType(typeinfo, name, alias) for a typedef
FeatureGenType ==
    /\ DriverAt("genType")
    /\ \E G \in {genType(fnRes, fnArg.opts, fnArg.decls["genType"][1])} : Called("genType", G)

\* VOutputGenerator.genType for a struct or an alias of one: genCType hands
\* it to genStruct
FeatureGenStruct ==
    /\ DriverAt("genStruct")
    /\ \E G \in {genType(fnRes, fnArg.opts, fnArg.decls["genStruct"][1])} : Called("genStruct", G)

\* VOutputGenerator.genGroup(groupinfo, groupName, alias)
FeatureGenGroup ==
    /\ DriverAt("genGroup")
    /\ \E G \in {genGroup(fnRes, fnArg.opts, fnArg.decls["genGroup"][1])} : Called("genGroup", G)

\* VOutputGenerator.genCmd(cmdinfo, name, alias)
FeatureGenCmd ==
    /\ DriverAt("genCmd")
    /\ \E G \in {genCmd(fnRes, fnArg.opts, fnArg.decls["genCmd"][1])} : Called("genCmd", G)

\* VOutputGenerator.endFeature of the core feature VK_VERSION_1_0, which
\* the naming policy approves: [err, lines]
endFeatureOf(G, opts, e) ==
    IF ~(e /\ G.feature_not_empty) THEN [err |-> "none", lines |-> <<>>]
    ELSE IF opts = <<>> THEN [err |-> "MissingGeneratorOptionsError", lines |-> <<>>]
    ELSE IF ~opts[1].conventions
    THEN [err |-> "MissingGeneratorOptionsConventionsError", lines |-> <<>>]
    ELSE CHOOSE R \in { [err |-> r.err, lines |-> r.lines]
                        : r \in {endFeatureLines(opts[1], G.sections, n_VK_VERSION_1_0, <<>>)} } : TRUE

FeatureEndFeature ==
    /\ DriverAt("endFeature")
    /\ \E r \in {endFeatureOf(fnRes, fnArg.opts, fnArg.emit)} :
           /\ fnRes' = Raise(fnRes, r.err)
           /\ fnRes2' = [before |-> fnRes, out |-> r.lines]
    /\ fnStage' = "endFeature"
    /\ UNCHANGED <<fnGen, fnArg>>
    /\ UNCHANGED genVars

NextFeature ==
    FeatureGenType \/ FeatureGenStruct \/ FeatureGenGroup \/ FeatureGenCmd \/ FeatureEndFeature

SpecFeature == InitFeature /\ [][NextFeature]_vars

\* the callback that ran last and the declaration it was given
LastDecl == fnArg.decls[fnStage][1]

\* the sections written by endFeature, in the order of writing
WrittenSections == SelectSeq(fnRes2.out, LAMBDA l : l.k = "sec")

\* the position at which sub first occurs in s, 0 if it does not occur
FirstAt(s, sub) ==
    LET at == { i \in 1..(Len(s) - Len(sub) + 1) : SubSeq(s, i, i + Len(sub) - 1) = sub }
    IN  IF at = {} THEN 0 ELSE CHOOSE i \in at : \A j \in at : i <= j

\* the feature of the end-to-end scenario: a typedef of uint32_t, a struct
\* and a command that returns VkResult, with complete options
EndToEndFeature ==
    /\ fnArg.opts # <<>> /\ fnArg.opts[1].conventions /\ fnArg.emit
    /\ fnArg.decls["genType"] = <<TypedefDecl(1, n_VkFlags, n_uint32_t)>>
    /\ fnArg.decls["genStruct"] = <<StructDecl(2, n_VkRenderArea, RenderAreaMembers, {})>>
    /\ fnArg.decls["genGroup"] = <<>>
    /\ fnArg.decls["genCmd"] = <<CommandDecl(4, n_vkCreateDevice, <<>>, n_VkResult, <<" ">>, CreateParams, {})>>

\* C18: for a core feature of one uint32_t typedef, one struct and one
\* command returning VkResult, endFeature writes the typedef's alias, then
\* the struct's declarations, then the command's function pointer type
\* alias, then its raw external declaration, then its wrapper, and no other
\* section between the struct and the command
C18_EndToEndOrder ==
    (fnStage = "endFeature" /\ EndToEndFeature /\ fnRes.err = "none") =>
        /\ [i \in DOMAIN WrittenSections |-> WrittenSections[i].g] = <<"basetype", "struct", "command">>
        /\ \A i \in DOMAIN WrittenSections : Len(WrittenSections[i].frags) = 1
        /\ WrittenSections[1].frags[1].txt.n = removeVk(n_VkFlags)
        /\ StartsWith(WrittenSections[2].frags[1].txt.t, s_pub_type \o removeVk(n_VkRenderArea))
        /\ Contains(WrittenSections[2].frags[1].txt.t, s_typedef_struct \o s_C_ \o n_VkRenderArea)
        /\ LET t == WrittenSections[3].frags[1].txt.t
               alias == FirstAt(t, <<"p", "u", "b", " ", "t", "y", "p", "e", " ", "P", "F", "N", "_", "v", "k", "C", "r", "e", "a", "t", "e", "D", "e", "v", "i", "c", "e">>)
               raw == FirstAt(t, <<"f", "n", " ", "C", ".", "v", "k", "C", "r", "e", "a", "t", "e", "D", "e", "v", "i", "c", "e", "(">>)
               wrapper == FirstAt(t, <<"p", "u", "b", " ", "f", "n", " ", "c", "r", "e", "a", "t", "e", "_", "d", "e", "v", "i", "c", "e", "(">>)
           IN  0 < alias /\ alias < raw /\ raw < wrapper

\* C19: genCmd for an alias command appends nothing to the sections command
\* and commandPointer and leaves feature_not_empty as it was
C19_AliasCommandSkipped ==
    (fnStage = "genCmd" /\ LastDecl.alias # <<>> /\ fnRes.err = "none") =>
        /\ fnRes.sections["command"] = fnRes2.before.sections["command"]
        /\ fnRes.sections["commandPointer"] = fnRes2.before.sections["commandPointer"]
        /\ fnRes.feature_not_empty = fnRes2.before.feature_not_empty

ConfigurationErrors == {"MissingGeneratorOptionsError", "MissingGeneratorOptionsConventionsError"}

\* the callbacks that need the options: genType, genStruct, genCmd, genGroup
\* for a group that is no alias, endFeature for an emitted feature that is
\* not empty
NeedsOptions ==
    \/ fnStage \in {"genType", "genStruct", "genCmd"}
    \/ fnStage = "genGroup" /\ LastDecl.alias = <<>>
    \/ fnStage = "endFeature" /\ fnArg.emit /\ fnRes2.before.feature_not_empty

\* C20: a callback that needs the options raises MissingGeneratorOptionsError
\* when genOpts is None, and a callback that raises either configuration
\* error has appended no fragment, written no output and changed no table
C20_ConfigErrorsFirst ==
    NeedsOptions =>
        /\ fnArg.opts = <<>> => fnRes.err = "MissingGeneratorOptionsError"
        /\ fnRes.err \in ConfigurationErrors =>
               /\ [fnRes EXCEPT !.err = "none"] = fnRes2.before
               /\ fnRes2.out = <<>>

(***************************************************************************)
(* buildEnumVDecl_BitmaskOrDefine step by step: one step for every turn of  *)
(* `for elem in enums` and one for every turn of `while numVal is None`.    *)
(* The groups are 64-bit families of flags of at most MaxFlags members;     *)
(* a member has a number or names a member, itself, a later one and one the *)
(* registry does not have included.                                         *)
(***************************************************************************)
MaxFlags == 3

n_VkAccessFlagBits2 == <<"V", "k", "A", "c", "c", "e", "s", "s", "F", "l", "a", "g", "B", "i", "t", "s", "2">>

\* VK_M0 is no member of any group; VK_Mi is the member at place i
FlagName(i) == <<"V", "K", "_", "M">> \o <<(<<"0", "1", "2", "3", "4", "5", "6", "7", "8", "9">>)[i + 1]>>

FlagMembersAt(i) ==
    { EnumMember(FlagName(i), v[1], v[2], req, <<>>, FALSE) :
        v \in { <<IntVal(FALSE, <<"1">>), <<"1">>>> } \cup { <<None, FlagName(k)>> : k \in 0..MaxFlags },
        req \in BOOLEAN }

FlagGroups ==
    UNION { { GroupOf(n_VkAccessFlagBits2, "bitmask", 64, ms) :
                ms \in { ms \in [1..k -> UNION {FlagMembersAt(i) : i \in 1..k}] :
                           \A i \in 1..k : ms[i] \in FlagMembersAt(i) } } : k \in 1..MaxFlags }

InitFlags ==
    /\ GenIdle
    /\ fnGen = "V"
    /\ fnArg \in { [d |-> d, opts |-> o] : d \in FlagGroups, o \in {1, 3} }
    /\ fnRes = <<>>
    /\ fnRes2 = <<>>
    /\ fnStage = "arg"

\* The declarations appended to body and to aliasText are held as the places
\* of their members; FlagsText is the text they stand for.

\* the statements before the loop
FlagsBegin ==
    /\ fnStage = "arg"
    /\ fnRes' = [ i |-> 1, numVal |-> None, strVal |-> <<>>, body |-> <<>>, aliasText |-> <<>> ]
    /\ fnStage' = "for"
    /\ UNCHANGED <<fnGen, fnArg, fnRes2>>
    /\ UNCHANGED genVars

\* one turn of `for elem in enums`, up to `while numVal is None`
FlagsFor ==
    /\ fnStage = "for"
    /\ fnRes.i <= Len(fnArg.d.members)
    /\ LET m == fnArg.d.members[fnRes.i]
       IN  IF OutOfRange(m.numVal, Zero, MaxUInt64)
           THEN fnStage' = "raised" /\ fnRes' = fnRes
           ELSE IF ~m.required
           THEN fnStage' = "for" /\ fnRes' = [fnRes EXCEPT !.i = @ + 1]
           ELSE IF Options[fnArg.opts].misracppstyle
           THEN /\ fnStage' = "for"
                /\ fnRes' = IF m.numVal # None
                            THEN [fnRes EXCEPT !.i = @ + 1, !.body = Append(@, fnRes.i)]
                            ELSE [fnRes EXCEPT !.i = @ + 1, !.aliasText = Append(@, fnRes.i)]
           ELSE /\ fnStage' = "while"
                /\ fnRes' = [fnRes EXCEPT !.numVal = m.numVal, !.strVal = m.strVal]
    /\ UNCHANGED <<fnGen, fnArg, fnRes2>>
    /\ UNCHANGED genVars

\* one turn of `while numVal is None`: the member strVal names is looked up
\* and its pair taken, or the error is logged, which raises
FlagsWhile ==
    /\ fnStage = "while"
    /\ fnRes.numVal = None
    /\ LET alias == AliasTarget(fnArg.d, fnRes.strVal)
       IN  IF alias # <<>>
           THEN /\ fnRes' = [fnRes EXCEPT
                               !.numVal = enumToValue(alias[1], fnArg.d.bitwidth).numVal,
                               !.strVal = enumToValue(alias[1], fnArg.d.bitwidth).strVal]
                /\ fnStage' = "while"
           ELSE fnStage' = "raised" /\ fnRes' = fnRes
    /\ UNCHANGED <<fnGen, fnArg, fnRes2>>
    /\ UNCHANGED genVars

\* the rest of the turn after the while loop: the declaration, built from
\* the texts taken before the loop, goes to body, numVal being a number now
FlagsAppend ==
    /\ fnStage = "while"
    /\ fnRes.numVal # None
    /\ fnRes' = [fnRes EXCEPT !.i = @ + 1, !.body = Append(@, fnRes.i)]
    /\ fnStage' = "for"
    /\ UNCHANGED <<fnGen, fnArg, fnRes2>>
    /\ UNCHANGED genVars

\* after the loop: body += aliasText; return ("bitmask", body)
FlagsReturn ==
    /\ fnStage = "for"
    /\ fnRes.i > Len(fnArg.d.members)
    /\ fnRes' = [fnRes EXCEPT !.body = @ \o fnRes.aliasText]
    /\ fnStage' = "done"
    /\ UNCHANGED <<fnGen, fnArg, fnRes2>>
    /\ UNCHANGED genVars

NextFlags == FlagsBegin \/ FlagsFor \/ FlagsWhile \/ FlagsAppend \/ FlagsReturn

SpecFlags == InitFlags /\ [][NextFlags]_vars

\* the interpreter does not stop between two statements
SpecFlagsLive == SpecFlags /\ WF_vars(NextFlags)

RECURSIVE FlagsDecls(_)
\* the declarations of the members at the places ps
FlagsDecls(ps) ==
    IF ps = <<>> THEN <<>>
    ELSE FlagDecl(enumToValue(fnArg.d.members[Head(ps)], fnArg.d.bitwidth), removeVk(fnArg.d.name),
                  Options[fnArg.opts].misracppstyle) \o FlagsDecls(Tail(ps))

\* the text of body
FlagsText ==
    buildEnumVDecl_BitmaskOrDefine(SeedTables, <<Options[fnArg.opts]>>,
                                   [fnArg.d EXCEPT !.members = <<>>], fnArg.d.bitwidth).body
    \o FlagsDecls(fnRes.body)

\* the steps compute what buildEnumVDecl_BitmaskOrDefine computes
FlagsStepsAgree ==
    fnStage = "done" =>
        FlagsText = buildEnumVDecl_BitmaskOrDefine(SeedTables, <<Options[fnArg.opts]>>,
                                                   fnArg.d, fnArg.d.bitwidth).body

\* C21: the chase of the aliases of a required member ends: the call returns
\* or raises after finitely many lookups, also when the target is missing or
\* the aliases name each other in a cycle
C21_ChaseTerminates == <>(fnStage \in {"done", "raised"})

\* the lines of body that declare a constant, as their words
FlagsDeclLines ==
    LET lines == Split(FlagsText, "\n")
        IsDecl(l) == StartsWith(l, <<"p", "u", "b", " ", "c", "o", "n", "s", "t", " ">>) \/ StartsWith(l, <<"s", "t", "a", "t", "i", "c", " ", "c", "o", "n", "s", "t", "e", "x", "p", "r", " ">>)
    IN  [ i \in { i \in DOMAIN lines : IsDecl(lines[i]) } |-> Split(lines[i], " ") ]

\* the constant a declaring line declares: `pub const <name> = <value>` or
\* `static constexpr <type> <name> {<value>};`
FlagsLineName(w) == IF w[1] = <<"p", "u", "b">> THEN w[3] ELSE w[4]

\* the value of a declaring line
FlagsLineValue(w) == IF w[1] = <<"p", "u", "b">> THEN w[5] ELSE SubSeq(w[5], 2, Len(w[5]) - 2)

\* C22: in the text the bitmask strategy returns, a constant whose value is
\* another constant of the group is declared after the constant it names,
\* whatever the order of the members
C22_AliasesAfterTargets ==
    fnStage = "done" =>
        \A i \in DOMAIN FlagsDeclLines :
            (\E j \in DOMAIN FlagsDeclLines :
                 FlagsLineName(FlagsDeclLines[j]) = FlagsLineValue(FlagsDeclLines[i]))
            => \E k \in DOMAIN FlagsDeclLines :
                   k < i /\ FlagsLineName(FlagsDeclLines[k]) = FlagsLineValue(FlagsDeclLines[i])

\* the text genCmd has appended to the section command
CommandFragment == fnRes.sections["command"][Len(fnRes.sections["command"])].txt.t

\* the part of the command's text before the wrapper: the raw external
\* declaration and the function pointer type alias
CLinkagePart == SubSeq(CommandFragment, 1, FirstAt(CommandFragment, <<"@", "[", "i", "n", "l", "i", "n", "e", "]">>) - 1)

\* genCmd has appended the text of a command
CommandAppended ==
    /\ fnStage = "genCmd" /\ fnRes.err = "none"
    /\ Len(fnRes.sections["command"]) > Len(fnRes2.before.sections["command"])

\* C23: the parameter lists of the raw external declaration and of the
\* function pointer type alias keep the pointer sigils and carry no mut
\* marker, whatever the types of the parameters
C23_CLinkageNotMut ==
    CommandAppended =>
        /\ Contains(CLinkagePart, <<"f", "n", " ", "C", ".">>) /\ Contains(CLinkagePart, <<"p", "u", "b", " ", "t", "y", "p", "e", " ", "P", "F", "N", "_">>)
        /\ LastDecl.members = CreateParams =>
               Contains(CLinkagePart, <<"&", "R", "e", "n", "d", "e", "r", "A", "r", "e", "a">>)
        /\ ~Contains(CLinkagePart, <<"m", "u", "t", " ">>)

\* makeVParamDecl was called as genStruct calls it for a member that is no
\* array and not sType
StructMemberRendered ==
    /\ fnStage = "once" /\ fnRes.err = "none"
    /\ fnArg.F = ParamFlags(TRUE, FALSE, TRUE, FALSE)
    /\ fnArg.dims = <<>> /\ fnArg.name # s_sType

\* the declared type of the member is the enclosing struct or a pointer to it
DeclaredSelfType == removeVk(fnArg.ctype) = fnArg.typeName

\* C24: a pNext member of type voidptr gets the default `= unsafe{ nil }`; a
\* pNext member whose declared type is the enclosing struct, or a pointer to
\* it, is retyped to voidptr with the same default; the type of every other
\* member is the translated type
C24_PNextDefault ==
    StructMemberRendered =>
        LET translated == ParamVType(fnArg.T, fnArg.ctype \o fnArg.ptr)
            defaulted == EndsWith(fnRes.paramdecl, <<" ">> \o s_voidptr \o s_unsafe_nil_tight)
        IN  IF fnArg.name = s_pNext /\ (translated = s_voidptr \/ DeclaredSelfType)
            THEN defaulted
            ELSE IF fnArg.name = s_pUserData /\ translated = s_voidptr
            THEN defaulted
            ELSE EndsWith(fnRes.paramdecl, <<" ">> \o translated)

(***************************************************************************)
(* buildConstantVDecl applied to constants whose value is a quoted string   *)
(* of at most MaxContent characters, a number, or the name of a constant.   *)
(***************************************************************************)
MaxContent == 3

\* VOutputGenerator.buildConstantVDecl(enuminfo, name, alias): strVal is the
\* value attribute as enumToValue(elem, False) returns it, typeStr the type
\* attribute, both <<>> when absent
buildConstantVDecl(name, strVal, typeStr, alias) ==
    LET v_value0 == IF StartsWith(Lower(strVal), s_vk) \/ StartsWith(strVal, <<"0", "x">>) THEN strVal
                    ELSE RemoveChars(strVal, <<"~", "U", "L", "F", "(", ")">>)
        typed == typeStr # <<>> /\ alias = <<>>
        v_type == IF typed /\ InTypeMap(typeStr) THEN TYPE_MAP(typeStr) ELSE <<>>
        prefix == IF typed /\ Contains(strVal, <<"~">>) THEN <<"~">> ELSE <<>>
        v_name == Strip(Lower(name))
        exact == EndsWith(v_name, <<"_", "e", "x", "t", "e", "n", "s", "i", "o", "n", "_", "n", "a", "m", "e">>) /\ StartsWith(v_value0, <<"\"">>)
        v_value == removeVk(IF exact THEN <<"c">> \o v_value0 ELSE Lower(v_value0))
    IN  <<"p", "u", "b", " ", "c", "o", "n", "s", "t", " ">> \o LJust(removeVk(v_name), 33) \o <<" ", "=", " ">> \o
        (IF prefix # <<>> THEN prefix \o v_type \o <<"(">> \o v_value \o <<")">>
         ELSE IF Strip(v_type) = <<>> THEN v_value
         ELSE Strip(v_type) \o <<"(">> \o v_value \o <<")">>)

n_X_EXTENSION_NAME == <<"V", "K", "_", "X", "_", "E", "X", "T", "E", "N", "S", "I", "O", "N", "_", "N", "A", "M", "E">>

n_X_SPEC_VERSION == <<"V", "K", "_", "X", "_", "S", "P", "E", "C", "_", "V", "E", "R", "S", "I", "O", "N">>

\* "..." around every text of at most MaxContent characters
QuotedStrings ==
    { <<"\"">> \o s \o <<"\"">> :
        s \in {<<>>} \cup SeqsUpTo({"V", "K", "_", "U", "L", "F", "a", "x", "1"}, MaxContent) }

ConstantArgs ==
    { [name |-> n, strVal |-> v, typeStr |-> <<>>, alias |-> <<>>] :
        n \in {n_X_EXTENSION_NAME, n_X_SPEC_VERSION}, v \in QuotedStrings }
    \cup
    { [name |-> n, strVal |-> v, typeStr |-> t, alias |-> a] :
        n \in {n_X_EXTENSION_NAME, n_X_SPEC_VERSION},
        v \in { <<"1">>, <<"0", "x", "1", "0">>, <<"(", "~", "0", "U", ")">>, <<"(", "~", "0", "U", "L", "L", ")">>, <<"1", "0", "0", "0", ".", "0", "F">>, <<"V", "K", "_", "Y", "_", "E", "X", "T", "E", "N", "S", "I", "O", "N", "_", "N", "A", "M", "E">> },
        t \in { <<>>, n_uint32_t, <<"u", "i", "n", "t", "6", "4", "_", "t">>, n_float },
        a \in { <<>>, <<"V", "K", "_", "Y", "_", "E", "X", "T", "E", "N", "S", "I", "O", "N", "_", "N", "A", "M", "E">> } }

InitConstant ==
    /\ GenIdle
    /\ fnGen = "V"
    /\ fnArg \in ConstantArgs
    /\ fnRes = <<>>
    /\ fnRes2 = <<>>
    /\ fnStage = "arg"

\* buildConstantVDecl(enuminfo, name, alias)
CallBuildConstantVDecl ==
    /\ fnStage = "arg"
    /\ fnRes' = buildConstantVDecl(fnArg.name, fnArg.strVal, fnArg.typeStr, fnArg.alias)
    /\ fnStage' = "once"
    /\ UNCHANGED <<fnGen, fnArg, fnRes2>>
    /\ UNCHANGED genVars

NextConstant == CallBuildConstantVDecl

SpecConstant == InitConstant /\ [][NextConstant]_vars

\* C25: for a constant whose name ends in _EXTENSION_NAME and whose value is
\* a quoted string, the value emitted is c followed by the quoted string as
\* it is, whatever the string holds
C25_ExtensionNameKept ==
    ( /\ fnStage = "once"
      /\ EndsWith(fnArg.name, <<"_", "E", "X", "T", "E", "N", "S", "I", "O", "N", "_", "N", "A", "M", "E">>)
      /\ StartsWith(fnArg.strVal, <<"\"">>) )
    => EndsWith(fnRes, <<" ", "=", " ", "c">> \o fnArg.strVal)

(***************************************************************************)
(* appendSection of the backup generator applied to at most MaxFrags        *)
(* fragments, one after the other.  declares is the C name of the command   *)
(* a fragment declares, <<>> for a fragment that declares no command.       *)
(***************************************************************************)
MaxFrags == 3

AppendFrags ==
    { [ section |-> "command", declares |-> n_vkCmdTraceRaysKHR,
        text |-> Text("command", <<"c", "m", "d", "_", "t", "r", "a", "c", "e", "_", "r", "a", "y", "s", "_", "k", "h", "r">>, <<"f", "n", " ", "C", ".", "v", "k", "C", "m", "d", "T", "r", "a", "c", "e", "R", "a", "y", "s", "K", "H", "R", "(", ")", "\n">>) ],
      [ section |-> "command", declares |-> n_vkCreateDevice,
        text |-> Text("command", <<"c", "r", "e", "a", "t", "e", "_", "d", "e", "v", "i", "c", "e">>, <<"f", "n", " ", "C", ".", "v", "k", "C", "r", "e", "a", "t", "e", "D", "e", "v", "i", "c", "e", "(", ")", "\n">>) ],
      [ section |-> "command", declares |-> <<"v", "k", "C", "m", "d", "T", "r", "a", "c", "e", "R", "a", "y", "s", "K", "H", "R", "X">>,
        text |-> Text("command", <<"c", "m", "d", "_", "t", "r", "a", "c", "e", "_", "r", "a", "y", "s", "_", "k", "h", "r", "x">>, <<"f", "n", " ", "C", ".", "v", "k", "C", "m", "d", "T", "r", "a", "c", "e", "R", "a", "y", "s", "K", "H", "R", "X", "(", ")", "\n">>) ],
      [ section |-> "struct", declares |-> <<>>,
        text |-> Text("struct", <<"D", "i", "s", "p", "a", "t", "c", "h", "T", "a", "b", "l", "e">>,
                      <<"p", "u", "b", " ", "s", "t", "r", "u", "c", "t", " ", "D", "i", "s", "p", "a", "t", "c", "h", "T", "a", "b", "l", "e", " ", "{", "\n", " ", " ", " ", " ", "t", "r", "a", "c", "e", " ", "P", "F", "N", "_", "v", "k", "C", "m", "d", "T", "r", "a", "c", "e", "R", "a", "y", "s", "K", "H", "R", "\n", "}", "\n">>) ],
      [ section |-> "basetype", declares |-> <<>>,
        text |-> Text("type", removeVk(n_VkFlags), <<"u", "3", "2">>) ],
      [ section |-> "define", declares |-> <<>>,
        text |-> [Text("c", <<"V", "K", "_", "D", "E", "F", "I", "N", "E", "_", "H", "A", "N", "D", "L", "E">>, <<"\n", "#", "d", "e", "f", "i", "n", "e", " ", "V", "K", "_", "D", "E", "F", "I", "N", "E", "_", "H", "A", "N", "D", "L", "E", "(", "o", "b", "j", "e", "c", "t", ")", " ", "t", "y", "p", "e", "d", "e", "f", " ", "s", "t", "r", "u", "c", "t", " ", "o", "b", "j", "e", "c", "t", "#", "#", "_", "T", "*", " ", "o", "b", "j", "e", "c", "t", ";", "\n">>)
                    EXCEPT !.repl = TRUE] ],
      [ section |-> "None", declares |-> <<>>,
        text |-> Text("type", removeVk(n_VkFlags), <<"u", "3", "2">>) ] }

InitAppendBK ==
    /\ GenIdle
    /\ fnGen = "BK"
    /\ fnArg \in SeqsUpTo(AppendFrags, MaxFrags)
    /\ fnRes = [FreshG EXCEPT !.T = SeedTablesBK]
    /\ fnRes2 = [before |-> fnRes, i |-> 1]
    /\ fnStage = "arg"

\* VOutputGeneratorBK.appendSection(section, text) for the next fragment
CallAppendSectionBK ==
    /\ fnRes2.i <= Len(fnArg)
    /\ fnRes.err = "none"
    /\ fnRes' = appendSectionBK(fnRes, fnArg[fnRes2.i].section, fnArg[fnRes2.i].text)
    /\ fnRes2' = [before |-> fnRes, i |-> fnRes2.i + 1]
    /\ fnStage' = "appended"
    /\ UNCHANGED <<fnGen, fnArg>>
    /\ UNCHANGED genVars

NextAppendBK == CallAppendSectionBK

SpecAppendBK == InitAppendBK /\ [][NextAppendBK]_vars

\* the fragment of the last call
LastFrag == fnArg[fnRes2.i - 1]

\* the texts a section holds, in order
SectionTexts(G, s) == [j \in DOMAIN G.sections[s] |-> G.sections[s][j].txt]

\* C26: appendSection of the backup generator drops a fragment, leaving the
\* sections and the flag as they were, exactly when the fragment declares a
\* command of the exclusion list; any other fragment is appended unchanged
\* at the end of its section
C26_DropsOnlyListed ==
    (fnStage = "appended" /\ fnRes.err = "none") =>
        IF LastFrag.declares \in prototype_functions
        THEN /\ fnRes.sections = fnRes2.before.sections
             /\ fnRes.feature_not_empty = fnRes2.before.feature_not_empty
        ELSE /\ SectionTexts(fnRes, LastFrag.section)
                    = Append(SectionTexts(fnRes2.before, LastFrag.section), LastFrag.text)
             /\ \A s \in DOMAIN fnRes.sections :
                    s # LastFrag.section => fnRes.sections[s] = fnRes2.before.sections[s]
             /\ fnRes.feature_not_empty

\* the names of the parameters of the command of the call, as the wrapper
\* spells them
ForwardedNames ==
    [i \in DOMAIN LastDecl.members |-> v_camel_to_snake_case(removeVk(LastDecl.members[i].elems[2].text))]

\* the wrapper in the text of the command
WrapperPart == Drop(CommandFragment, FirstAt(CommandFragment, <<"@", "[", "i", "n", "l", "i", "n", "e", "]">>) - 1)

\* the arguments of the call of the raw external declaration in the body of
\* the wrapper, without the mut marker of a mutable argument
ForwardedInCall ==
    LET callee == <<"C", ".">> \o LastDecl.name \o <<"(">>
        open == FirstAt(WrapperPart, callee) + Len(callee)
        close == FirstAt(WrapperPart, <<")", "\n", "}">>)
        args == SubSeq(WrapperPart, open, close - 1)
        Arg(a) == IF StartsWith(Strip(a), <<"m", "u", "t", " ">>) THEN Strip(Drop(Strip(a), 4)) ELSE Strip(a)
    IN  IF Strip(args) = <<>> THEN <<>>
        ELSE [i \in DOMAIN Split(args, ",") |-> Arg(Split(args, ",")[i])]

\* C27: with complete options genCmd completes for every command that is no
\* alias, whatever the number of its parameters, zero included, and appends
\* one fragment to the section command that holds the function pointer type
\* alias, the raw external declaration and a wrapper whose call forwards the
\* names of the parameters in the order of declaration
C27_GenCmdCompletes ==
    ( /\ fnStage = "genCmd" /\ LastDecl.alias = <<>>
      /\ fnArg.opts # <<>> /\ fnArg.opts[1].conventions )
    => /\ fnRes.err = "none"
       /\ Len(fnRes.sections["command"]) = Len(fnRes2.before.sections["command"]) + 1
       /\ Contains(CommandFragment, <<"p", "u", "b", " ", "t", "y", "p", "e", " ", "P", "F", "N", "_">> \o LastDecl.name)
       /\ Contains(CommandFragment, <<"f", "n", " ", "C", ".">> \o LastDecl.name \o <<"(">>)
       /\ Contains(CommandFragment, <<"p", "u", "b", " ", "f", "n", " ">> \o removeVk(v_camel_to_snake_case(LastDecl.name)) \o <<"(">>)
       /\ Contains(WrapperPart, <<"C", ".">> \o LastDecl.name \o <<"(">>)
       /\ ForwardedInCall = ForwardedNames

(***************************************************************************)
(* removeStructEnumNameFromMember on its own: the name of a group as       *)
(* buildEnumVDecl_Enum passes it and two member names, in lower case and   *)
(* without the vk_ prefix, made of up to MaxWords words; the words are the *)
(* words of the group's name, a letter and a word that begins with a       *)
(* digit, and a member name begins with a letter.                          *)
(***************************************************************************)
MaxWords == 3

\* the words the member names of a group are made of
StripWords(group) ==
    (IF group = removeVk(n_VkPresentModeKHR)
     THEN { <<"p", "r", "e", "s", "e", "n", "t">>, <<"m", "o", "d", "e">>, <<"k", "h", "r">> }
     ELSE { <<"a", "c", "c", "e", "s", "s">>, <<"f", "l", "a", "g">>, <<"b", "i", "t">> }) \cup { <<"a">>, <<"2", "d">> }

\* the member names of a group
StripNames(group) ==
    { Join(ws, "_") :
        ws \in { w \in UNION { [1..k -> StripWords(group)] : k \in 1..MaxWords } :
                    ~IsDigit(w[1][1]) } }

InitStrip ==
    /\ GenIdle
    /\ fnGen = "V"
    /\ fnArg \in UNION { { [group |-> g, a |-> a, b |-> b] : a \in StripNames(g), b \in StripNames(g) }
                         : g \in { removeVk(n_VkPresentModeKHR), removeVk(n_VkAccessFlagBits) } }
    /\ fnRes = <<>>
    /\ fnRes2 = <<>>
    /\ fnStage = "arg"

\* VOutputGenerator.removeStructEnumNameFromMember(structEnumName, memberName),
\* called for two members of one group
CallRemoveStructEnumName ==
    /\ fnStage = "arg"
    /\ fnRes' = removeStructEnumNameFromMember(fnArg.group, fnArg.a)
    /\ fnRes2' = removeStructEnumNameFromMember(fnArg.group, fnArg.b)
    /\ fnStage' = "stripped"
    /\ UNCHANGED <<fnGen, fnArg>>
    /\ UNCHANGED genVars

NextStrip == CallRemoveStructEnumName

SpecStrip == InitStrip /\ [][NextStrip]_vars

\* C28: the names removeStructEnumNameFromMember leaves of two distinct
\* member names of one group are distinct, and a name it leaves is not
\* empty and does not begin with a digit.
C28_StripInjective ==
    fnStage = "stripped"
    => /\ fnArg.a # fnArg.b => fnRes # fnRes2
       /\ fnRes # <<>>
       /\ ~IsDigit(fnRes[1])


\* genGroup has handed the group to buildEnumVDecl_Enum
UsesEnumStrategy ==
    ~(fnArg.d.category = "bitmask"
      /\ (fnArg.d.bitwidth > 32 \/ Options[fnArg.opts].misracppstyle))

\* the text genGroup has appended for the group
EnumText ==
    fnRes.sections[IF fnArg.d.category = "bitmask" THEN "bitmask" ELSE "group"][1].txt.t

\* the members of the group that are declared in the body with a number
\* below zero
NegativeDeclared ==
    { i \in DOMAIN fnArg.d.members :
        /\ fnArg.d.members[i].required /\ fnArg.d.members[i].protect = <<>>
        /\ fnArg.d.members[i].numVal # None
        /\ fnArg.d.members[i].numVal.neg /\ fnArg.d.members[i].numVal.mag # <<"0">> }

\* C29: an enumeration that buildEnumVDecl_Enum of the primary generator
\* declares 'as u32' declares no member, of the group's own or added by an
\* extension, with a number below zero; one that declares such a member is
\* declared without 'as u32'.
C29_UnsignedHasNoNegative ==
    ( /\ fnStage = "once" /\ fnGen = "V"
      /\ UsesEnumStrategy
      /\ fnRes.err = "none" )
    => ( Contains(EnumText, <<" ", "a", "s", " ", "u", "3", "2", " ", "{">>) => NegativeDeclared = {} )


(***************************************************************************)
(* The version helpers genType writes for the C macros VK_MAKE_VERSION,    *)
(* VK_VERSION_MAJOR, ..., VK_API_VERSION_PATCH.  They are functions of the *)
(* destination language over u32; a u32 is kept as its 32 bits, the lowest *)
(* first, and <<, >>, | and & are the operators of that type.              *)
(***************************************************************************)
RECURSIVE U32Bits(_, _)
\* the w lowest bits of the number n
U32Bits(n, w) == IF w = 0 THEN <<>> ELSE <<n % 2>> \o U32Bits(n \div 2, w - 1)

\* u32(n)
U32(n) == U32Bits(n, 32)

\* a << k
Shl(a, k) == [i \in 1..32 |-> IF i <= k THEN 0 ELSE a[i - k]]

\* a >> k
Shr(a, k) == [i \in 1..32 |-> IF i + k <= 32 THEN a[i + k] ELSE 0]

\* a | b
BitOr(a, b) == [i \in 1..32 |-> IF a[i] = 1 \/ b[i] = 1 THEN 1 ELSE 0]

\* a & b
BitAnd(a, b) == [i \in 1..32 |-> IF a[i] = 1 /\ b[i] = 1 THEN 1 ELSE 0]

\* pub fn make_version(major u32, minor u32, patch u32) u32
make_version(major, minor, patch) == BitOr(BitOr(Shl(major, 22), Shl(minor, 12)), patch)

\* pub fn version_major(version u32) u32
version_major(version) == Shr(version, 22)

\* pub fn version_minor(version u32) u32
version_minor(version) == BitAnd(Shr(version, 12), U32(4095))

\* pub fn version_patch(version u32) u32
version_patch(version) == BitAnd(version, U32(4095))

\* pub fn make_api_version(variant u32, major u32, minor u32, patch u32) u32
make_api_version(variant, major, minor, patch) ==
    BitOr(BitOr(BitOr(Shl(variant, 29), Shl(major, 22)), Shl(minor, 12)), patch)

\* pub fn version_variant(version u32) u32
version_variant(version) == Shr(version, 29)

\* pub fn api_version_major(version u32) u32
api_version_major(version) == BitAnd(Shr(version, 22), U32(127))

\* pub fn api_version_minor(version u32) u32
api_version_minor(version) == BitAnd(Shr(version, 12), U32(1023))

\* pub fn api_version_patch(version u32) u32
api_version_patch(version) == BitAnd(version, U32(4095))

\* numbers of w bits: the ends of the range, the lowest and the highest bit
\* alone, and the highest number but one
FieldValues(w) == { 0, 1, 2 ^ (w - 1), 2 ^ w - 2, 2 ^ w - 1 }

\* the fields of a version: with a variant, of 3, 7, 10 and 12 bits;
\* without one, of 10, 10 and 12 bits
VersionArgs ==
    { [api |-> TRUE, variant |-> v, major |-> ma, minor |-> mi, patch |-> p] :
        v \in FieldValues(3), ma \in FieldValues(7), mi \in FieldValues(10), p \in FieldValues(12) }
    \cup { [api |-> FALSE, variant |-> 0, major |-> ma, minor |-> mi, patch |-> p] :
        ma \in FieldValues(10), mi \in FieldValues(10), p \in FieldValues(12) }

InitVersion ==
    /\ GenIdle
    /\ fnGen = "V"
    /\ fnArg \in VersionArgs
    /\ fnRes = <<>>
    /\ fnRes2 = <<>>
    /\ fnStage = "arg"

\* make_api_version(variant, major, minor, patch)
CallMakeApiVersion ==
    /\ fnStage = "arg"
    /\ fnArg.api
    /\ fnRes' = make_api_version(U32(fnArg.variant), U32(fnArg.major), U32(fnArg.minor), U32(fnArg.patch))
    /\ fnStage' = "made"
    /\ UNCHANGED <<fnGen, fnArg, fnRes2>>
    /\ UNCHANGED genVars

\* make_version(major, minor, patch)
CallMakeVersion ==
    /\ fnStage = "arg"
    /\ ~fnArg.api
    /\ fnRes' = make_version(U32(fnArg.major), U32(fnArg.minor), U32(fnArg.patch))
    /\ fnStage' = "made"
    /\ UNCHANGED <<fnGen, fnArg, fnRes2>>
    /\ UNCHANGED genVars

\* version_variant, api_version_major, api_version_minor and
\* api_version_patch of the version made
CallApiVersionFields ==
    /\ fnStage = "made"
    /\ fnArg.api
    /\ fnRes2' = [ variant |-> version_variant(fnRes), major |-> api_version_major(fnRes),
                   minor |-> api_version_minor(fnRes), patch |-> api_version_patch(fnRes) ]
    /\ fnStage' = "read"
    /\ UNCHANGED <<fnGen, fnArg, fnRes>>
    /\ UNCHANGED genVars

\* version_major, version_minor and version_patch of the version made
CallVersionFields ==
    /\ fnStage = "made"
    /\ ~fnArg.api
    /\ fnRes2' = [ variant |-> U32(0), major |-> version_major(fnRes),
                   minor |-> version_minor(fnRes), patch |-> version_patch(fnRes) ]
    /\ fnStage' = "read"
    /\ UNCHANGED <<fnGen, fnArg, fnRes>>
    /\ UNCHANGED genVars

NextVersion ==
    \/ CallMakeApiVersion
    \/ CallMakeVersion
    \/ CallApiVersionFields
    \/ CallVersionFields

SpecVersion == InitVersion /\ [][NextVersion]_vars

\* C30: the fields read back from make_api_version(variant, major, minor,
\* patch) with variant < 8, major < 128, minor < 1024, patch < 4096 are the
\* fields it was made of, and the fields read back from
\* make_version(major, minor, patch) with major < 1024, minor < 1024,
\* patch < 4096 are major, minor and patch.
C30_VersionRoundTrip ==
    fnStage = "read"
    => /\ fnRes2.variant = U32(fnArg.variant)
       /\ fnRes2.major = U32(fnArg.major)
       /\ fnRes2.minor = U32(fnArg.minor)
       /\ fnRes2.patch = U32(fnArg.patch)


====
